---- MODULE Spec2Model ----
(***************************************************************************)
(* Model of the LahStats processing backend: the Redis worker loop         *)
(* (backend/worker.py) and the pipeline orchestrator process_session       *)
(* (backend/processor.py).                                                 *)
(*                                                                         *)
(* One worker process, one session row in the database ("s1") and one      *)
(* session id that has no row ("s0").  External collaborators (audio       *)
(* download, diarization, transcription, storage upload) are inputs: each  *)
(* call either returns a value drawn from a small set or raises.           *)
(*                                                                         *)
(* The chunk transcription cache (backend/services/transcription_cache.py) *)
(* has specifications of its own: CoverSpec applies get_text_for_time_range*)
(* to every input within the bounds, CacheSpec runs the background         *)
(* population tasks against the chunk_transcriptions table.                *)
(*                                                                         *)
(* TxSpec runs the worker with transcribe_and_count in detail, SemSpec the *)
(* gather of its batch alone; LoopSpec and LoopLiveSpec run the worker     *)
(* loop against a broker that can become unreachable; ClaimSpec and        *)
(* UploadSpec run the requests of the claim and chunk upload endpoints     *)
(* (backend/routers/sessions.py).                                          *)
(***************************************************************************)
EXTENDS Integers, Sequences, FiniteSets, TLC

\* ------------------------------------------------------------------------
\* Bounds of the model
\* ------------------------------------------------------------------------
MaxJobs == 1
MaxSegments == 2
MaxChunks == 2
MaxTime == 12
MaxBgTasks == 2
MaxTasks == 4
MaxClaimReqs == 2
MaxUploads == 3

\* ------------------------------------------------------------------------
\* Program constants
\* ------------------------------------------------------------------------
MAX_RETRIES == 3
RETRY_DELAY_BASE == 5
ErrorMessageLimit == 500
WrapPrefixLen == 19
SessionNotFoundLen == 55
SemaphoreLimit == 3
DefaultChunkDuration == 30
MinCoveragePercent == 80

PROGRESS_STAGES ==
    [ concatenating      |-> <<0, 10>>,
      diarizing          |-> <<10, 40>>,
      transcribing       |-> <<40, 85>>,
      saving_results     |-> <<85, 95>>,
      generating_samples |-> <<95, 100>> ]

StageOrder ==
    << "concatenating", "diarizing", "transcribing", "saving_results",
       "generating_samples" >>

StageNames == { StageOrder[i] : i \in 1..Len(StageOrder) }

\* ------------------------------------------------------------------------
\* Value spaces
\* ------------------------------------------------------------------------
DbSessionIds == {"s1"}
SessionIds == {"s0", "s1"}
Speakers == {"SPEAKER_00", "SPEAKER_01"}
ErrLens == {481, 482}

NoJob == [id |-> 0, kind |-> "none", sid |-> "-"]
NoMsg == [len |-> 0, wrapped |-> FALSE]
NoUrl == << "null" >>
NoSummary == [speakers |-> -1, segments |-> -1]
NoOutcome == [job |-> NoJob, result |-> "none"]
NoReconnect == [handler |-> "none", delay |-> 0, connected |-> TRUE]

Min(a, b) == IF a < b THEN a ELSE b

\* The raw payload strings a client can push: a well-formed job for a
\* session id, a JSON object without session_id, and a string that is not JSON.
RawPayload(id, kind, sid) == [id |-> id, kind |-> kind, sid |-> sid]

PayloadChoices ==
    { <<"job", s>> : s \in SessionIds } \cup { <<"nosid", "-">>, <<"garbage", "-">> }

\* Variant of json_loads that decodes every string, giving an empty dict for
\* one that is not JSON.
json_loads_Lenient(raw) ==
    [ok |-> TRUE,
     is_dict |-> raw.kind # "nondict",
     session_id |-> IF raw.kind = "job" THEN raw.sid ELSE "",
     queued_at |-> raw.id]

\* json.loads(job_data_str): a decode error for a string that is not JSON,
\* else the decoded value: a dict, in which session_id is absent for a
\* payload without it, or a JSON value that is not an object (a list, a
\* number, a string, null).
json_loads(raw) ==
    IF raw.kind = "garbage"
    THEN [ok |-> FALSE, is_dict |-> FALSE, session_id |-> "", queued_at |-> 0]
    ELSE [ok |-> TRUE,
          is_dict |-> raw.kind # "nondict",
          session_id |-> IF raw.kind = "job" THEN raw.sid ELSE "",
          queued_at |-> raw.id]

\* str(e) of an exception raised by a stage (a text of the given length),
\* ProcessingError(f"Processing failed: {e}") built from it, and the slice
\* error_message[:n].
Err(len) == [len |-> len, wrapped |-> FALSE]
WrapProcessingError(e) == [len |-> e.len + WrapPrefixLen, wrapped |-> TRUE]
Truncate(m, n) == [m EXCEPT !.len = Min(m.len, n)]

\* Variant of update_progress that scales the end of the range, not its width.
update_progress_NoOffset(stage, stage_progress) ==
    LET start == PROGRESS_STAGES[stage][1]
        end   == PROGRESS_STAGES[stage][2]
    IN  start + (end * stage_progress) \div 100

\* update_progress: the overall value of a stage-local percentage.
update_progress(stage, stage_progress) ==
    LET start == PROGRESS_STAGES[stage][1]
        end   == PROGRESS_STAGES[stage][2]
    IN  start + ((end - start) * stage_progress) \div 100

\* Exponential backoff before the retry that follows a failed attempt.
RetryDelay(failedAttempt) == RETRY_DELAY_BASE * (2 ^ (failedAttempt - 1))

VARIABLES
    workQueue,          \* Redis list lahstats:processing, head = left end
    failedQueue,        \* Redis list lahstats:failed, head = left end
    nextId,             \* number of payloads enqueued so far + 1
    pc,                 \* position of the worker
    shutdown_requested, \* worker.py global flag
    job_data_str,       \* raw payload held by the worker
    attempt,            \* loop variable of process_job
    exc,                \* exception caught by process_job (str(e))
    sessions,           \* sessions table: row per id in DbSessionIds
    speakerRows,        \* session_speakers table: rows per session and label
    storageObjects,     \* sessions whose processed full_audio.wav is in storage
    segments,           \* diarization result of the current run
    nCached,            \* len(cached_segments) of the current run
    aggIdx,             \* loop index i of the aggregation loop
    speaker_records,    \* labels saved by save_speaker_results in this run
    progressLog,        \* writes to Session.progress made by the current run
    summary,            \* value returned by the last process_session
    sleeps,             \* delays slept by process_job for the current job
    invocations,        \* process_session calls made for the current job
    dequeues,           \* per payload id: times popped from the work queue
    lastOutcome,        \* how the worker finished its last payload
    dequeuedAfterSignal \* payloads popped after the flag was set

\* The Redis broker as the worker's client sees it.
VARIABLES
    broker_up,          \* the broker accepts connections and commands
    reconnect           \* the last pass through an exception handler of main

brokerVars == << broker_up, reconnect >>

\* The word_counts table and the requests of the claim and upload endpoints.
VARIABLES
    speaker_claims,     \* claim columns of the SessionSpeaker rows of s1
    word_counts,        \* WordCount rows of s1, in insertion order
    claim_reqs,         \* the claim_speaker requests being handled
    audio_chunks,       \* chunk_number of the AudioChunk rows of s1, in insertion order
    upload_reqs         \* the upload_chunk requests being handled

claimVars == << speaker_claims, word_counts, claim_reqs >>
uploadVars == << audio_chunks, upload_reqs >>
apiVars == << claimVars, uploadVars >>

\* Inputs and result of one call of get_text_for_time_range.
VARIABLES
    chunks,             \* AudioChunk rows by chunk_number: duration_seconds
    cached,             \* dict chunk_number -> corrected_text of the cache row
    segment,            \* start_time and end_time of the diarized segment
    cached_text,        \* value returned by get_text_for_time_range
    classified          \* list transcribe_and_count put the segment in

coverVars == << chunks, cached, segment, cached_text, classified >>

\* The chunk transcription cache of session s1 and its population tasks.
VARIABLES
    chunk_transcriptions, \* table: the rows of each chunk_number
    bg,                   \* the calls of transcribe_chunk_background
    cached_rows           \* value returned by get_cached_transcriptions

cacheVars == << chunk_transcriptions, bg, cached_rows >>

\* transcribe_and_count in detail, and the speaker_word_counts table.
VARIABLES
    cached_segments,     \* segments served from the cache, with their counts
    uncached_segments,   \* segments sent to direct transcription
    tasks,               \* the limited_transcribe coroutines given to gather
    semaphore,           \* value of asyncio.Semaphore(3)
    completion_order,    \* indices of the tasks in the order they returned
    speaker_word_counts, \* in-memory aggregation: speaker_id -> count
    word_count_rows      \* SpeakerWordCount rows of s1 by speaker_label

txLocals == << cached_segments, uncached_segments, tasks, semaphore,
               completion_order, speaker_word_counts >>
txVars == << txLocals, word_count_rows >>
sideVars == << coverVars, cacheVars, word_count_rows, brokerVars, apiVars >>
detailVars == << sideVars, txLocals >>

vars ==
    << workQueue, failedQueue, nextId, pc, shutdown_requested, job_data_str,
       attempt, exc, sessions, speakerRows, storageObjects, segments, nCached, aggIdx,
       speaker_records, progressLog, summary, sleeps, invocations, dequeues,
       lastOutcome, dequeuedAfterSignal, detailVars >>

workerVars ==
    << workQueue, failedQueue, nextId, pc, shutdown_requested, job_data_str,
       attempt, exc, sessions, speakerRows, storageObjects, segments, nCached, aggIdx,
       speaker_records, progressLog, summary, sleeps, invocations, dequeues,
       lastOutcome, dequeuedAfterSignal, brokerVars, apiVars >>

\* Everything but the state of the claim and upload endpoints.
backgroundVars ==
    << workQueue, failedQueue, nextId, pc, shutdown_requested, job_data_str,
       attempt, exc, sessions, speakerRows, storageObjects, segments, nCached, aggIdx,
       speaker_records, progressLog, summary, sleeps, invocations, dequeues,
       lastOutcome, dequeuedAfterSignal, brokerVars, coverVars, cacheVars, txVars >>

queueVars == << workQueue, failedQueue, nextId >>
dbVars == << sessions, speakerRows, storageObjects >>
runVars == << segments, nCached, aggIdx, speaker_records, progressLog, summary,
             invocations >>
histVars == << dequeues, lastOutcome, dequeuedAfterSignal >>

JobIds == 1..MaxJobs

SessionRow(status, progress, msg, url) ==
    [status |-> status, progress |-> progress, error_message |-> msg,
     audio_url |-> url]

\* The worker has been started and has dequeued nothing yet.
WorkerStarted ==
    /\ failedQueue = << >>
    /\ pc = "loop"
    /\ shutdown_requested = FALSE
    /\ job_data_str = NoJob
    /\ attempt = 0
    /\ exc = NoMsg
    /\ sessions = [s \in DbSessionIds |-> SessionRow("processing", 0, NoMsg, NoUrl)]
    /\ speakerRows = [s \in DbSessionIds |-> [k \in Speakers |-> 0]]
    /\ storageObjects = {}
    /\ segments = << >>
    /\ nCached = 0
    /\ aggIdx = 0
    /\ speaker_records = {}
    /\ progressLog = << >>
    /\ summary = NoSummary
    /\ sleeps = << >>
    /\ invocations = 0
    /\ dequeues = [i \in JobIds |-> 0]
    /\ lastOutcome = NoOutcome
    /\ dequeuedAfterSignal = 0
    /\ broker_up = TRUE
    /\ reconnect = NoReconnect

WorkerInit ==
    /\ workQueue = << >>
    /\ nextId = 1
    /\ WorkerStarted

\* The value None of Optional[str], and a str as the sequence of its words.
None == [found |-> FALSE, text |-> << >>]
Str(words) == [found |-> TRUE, text |-> words]

\* No call of get_text_for_time_range is being looked at.
CoverIdle ==
    /\ chunks = << >>
    /\ cached = << >>
    /\ segment = [start_time |-> 0, end_time |-> 0]
    /\ cached_text = None
    /\ classified = "none"

\* The corrected_text a cache row of chunk n can hold: empty, or one word.
WordOf(n) == IF n = 1 THEN "lah" ELSE IF n = 2 THEN "walao" ELSE "sia"
TextsOf(n) == { << >>, << WordOf(n) >> }

ChunkNumbers == 1..MaxChunks
ClaimReqs == 1..MaxClaimReqs
UploadReqs == 1..MaxUploads
BgTasks == 1..MaxBgTasks

\* A call of transcribe_chunk_background that has not been made, or whose
\* locals are gone.
BgTask(pc_, n, outcome) ==
    [pc |-> pc_, chunk_number |-> n, existing |-> FALSE, corrected_text |-> << >>,
     calls |-> 0, cached_at_start |-> FALSE, outcome |-> outcome]

NotQueried == [queried |-> FALSE, rows |-> << >>]

\* An empty cache table, no population task, no lookup.
CacheIdle ==
    /\ chunk_transcriptions = [n \in ChunkNumbers |-> << >>]
    /\ bg = [t \in BgTasks |-> BgTask("idle", 0, "none")]
    /\ cached_rows = NotQueried

\* No request of the claim or upload endpoint exists; the tables they write
\* are empty.
Unclaimed == [claimed_by |-> "null", claim_type |-> "null", attributed_to_user_id |-> "null"]
NoClaimReq == [pc |-> "idle", user |-> "null", speaker |-> "null", claim_type |-> "null"]
NoUploadReq == [pc |-> "idle", chunk_number |-> 0]
ApiIdle ==
    /\ speaker_claims = [k \in Speakers |-> Unclaimed]
    /\ word_counts = << >>
    /\ claim_reqs = [r \in ClaimReqs |-> NoClaimReq]
    /\ audio_chunks = << >>
    /\ upload_reqs = [r \in UploadReqs |-> NoUploadReq]

\* transcribe_and_count is not running: its locals do not exist; no
\* SpeakerWordCount row has been written.
NoCounts == [k \in Speakers |-> 0]
TxLocalsCleared ==
    /\ cached_segments' = << >>
    /\ uncached_segments' = << >>
    /\ tasks' = << >>
    /\ semaphore' = 0
    /\ completion_order' = << >>
    /\ speaker_word_counts' = NoCounts

TxIdle ==
    /\ cached_segments = << >>
    /\ uncached_segments = << >>
    /\ tasks = << >>
    /\ semaphore = 0
    /\ completion_order = << >>
    /\ speaker_word_counts = NoCounts
    /\ word_count_rows = [k \in Speakers |-> << >>]

Init == WorkerInit /\ CoverIdle /\ CacheIdle /\ ApiIdle /\ TxIdle

\* ------------------------------------------------------------------------
\* Helpers
\* ------------------------------------------------------------------------
\* Redis LPUSH and the element/rest of BRPOP on a list whose left end is
\* index 1.
lpush(q, p) == << p >> \o q
brpop_item(q) == q[Len(q)]
\* Variant of brpop_rest for a pop that reads the element and leaves it.
brpop_rest_Peek(q) == q
brpop_rest(q) == SubSeq(q, 1, Len(q) - 1)

\* session_id of the job the worker holds.
CurSid == json_loads(job_data_str).session_id
CurId == job_data_str.id

RECURSIVE CountIn(_, _)
CountIn(q, p) ==
    IF q = << >> THEN 0
    ELSE (IF Head(q) = p THEN 1 ELSE 0) + CountIn(Tail(q), p)

RECURSIVE SeqsUpTo(_, _)
SeqsUpTo(S, n) ==
    IF n = 0 THEN { << >> }
    ELSE LET shorter == SeqsUpTo(S, n - 1)
         IN  shorter \cup { Append(q, x) : q \in shorter, x \in S }

SpeakerIdsOf(segs) == { segs[i] : i \in 1..Len(segs) }

\* One write to Session.progress through update_progress(db, session, stage, p)
\* and one direct assignment session.progress = v, as log entries.
StageWrite(stage, p) ==
    [stage |-> stage, pct |-> p, value |-> update_progress(stage, p)]
DirectWrite(v) == [stage |-> "direct", pct |-> v, value |-> v]

LastValue(log) == log[Len(log)].value

\* The row of session sid after the writes of log were committed.
WithProgress(row, log) == [row EXCEPT !.progress = LastValue(log)]

\* The local variables of process_job and process_session are gone once the
\* functions have returned (or the process has died).
ResetLocals ==
    /\ attempt' = 0
    /\ exc' = NoMsg
    /\ sleeps' = << >>
    /\ segments' = << >>
    /\ nCached' = 0
    /\ aggIdx' = 0
    /\ speaker_records' = {}
    /\ progressLog' = << >>
    /\ summary' = NoSummary
    /\ invocations' = 0
    /\ TxLocalsCleared

\* ------------------------------------------------------------------------
\* Clients and the operating system
\* ------------------------------------------------------------------------
\* A client pushes a job payload for processing (lpush on the work queue).
Enqueue ==
    /\ nextId <= MaxJobs
    /\ \E c \in PayloadChoices :
         workQueue' = lpush(workQueue, RawPayload(nextId, c[1], c[2]))
    /\ nextId' = nextId + 1
    /\ UNCHANGED << detailVars, failedQueue, pc, shutdown_requested, job_data_str, attempt,
                    exc, dbVars, runVars, sleeps, histVars >>

\* signal_handler: SIGTERM or SIGINT sets the flag.  The interrupted call
\* (brpop, sleep, a pipeline stage) resumes afterwards.
signal_handler ==
    /\ pc \notin {"exited", "crashed"}
    /\ ~shutdown_requested
    /\ shutdown_requested' = TRUE
    /\ dequeuedAfterSignal' = 0
    /\ UNCHANGED << detailVars, queueVars, pc, job_data_str, attempt, exc, dbVars, runVars,
                    sleeps, dequeues, lastOutcome >>

\* The worker process dies (kill -9, out of memory, power loss).
Crash ==
    /\ pc \notin {"exited", "crashed"}
    /\ pc' = "crashed"
    /\ ResetLocals
    /\ UNCHANGED << sideVars, queueVars, shutdown_requested, job_data_str, dbVars, histVars >>

\* ------------------------------------------------------------------------
\* worker.main
\* ------------------------------------------------------------------------
\* Variant of BrpopCall for a loop that does not test the flag.
BrpopCall_IgnoreFlag ==
    /\ pc = "loop"
    /\ pc' = "brpop"
    /\ UNCHANGED << detailVars, queueVars, shutdown_requested, job_data_str, attempt, exc,
                    dbVars, runVars, sleeps, histVars >>

\* while not shutdown_requested: ... redis_client.brpop(...) is entered.
BrpopCall ==
    /\ pc = "loop"
    /\ ~shutdown_requested
    /\ pc' = "brpop"
    /\ UNCHANGED << detailVars, queueVars, shutdown_requested, job_data_str, attempt, exc,
                    dbVars, runVars, sleeps, histVars >>

\* The loop condition is false: shutdown summary and sys.exit(0).
WorkerExit ==
    /\ pc = "loop"
    /\ shutdown_requested
    /\ pc' = "exited"
    /\ UNCHANGED << detailVars, queueVars, shutdown_requested, job_data_str, attempt, exc,
                    dbVars, runVars, sleeps, histVars >>

\* brpop returns None after REDIS_TIMEOUT: continue.
BrpopTimeout ==
    /\ pc = "brpop"
    /\ broker_up
    /\ workQueue = << >>
    /\ pc' = "loop"
    /\ UNCHANGED << detailVars, queueVars, shutdown_requested, job_data_str, attempt, exc,
                    dbVars, runVars, sleeps, histVars >>

\* brpop returns the payload at the right end of the work queue, which Redis
\* removes in the same step.
BrpopReturn ==
    /\ pc = "brpop"
    /\ broker_up
    /\ workQueue # << >>
    /\ job_data_str' = brpop_item(workQueue)
    /\ workQueue' = brpop_rest(workQueue)
    /\ pc' = "parse"
    /\ dequeues' = [dequeues EXCEPT ![brpop_item(workQueue).id] = @ + 1]
    /\ dequeuedAfterSignal' =
         IF shutdown_requested THEN dequeuedAfterSignal + 1 ELSE dequeuedAfterSignal
    /\ lastOutcome' = NoOutcome
    /\ UNCHANGED << detailVars, failedQueue, nextId, shutdown_requested, attempt, exc, sleeps,
                    dbVars, runVars >>

\* Variant of ParseJob without the test of session_id in process_job.
ParseJob_NoSidCheck ==
    /\ pc = "parse"
    /\ LET job_data == json_loads(job_data_str) IN
       IF ~job_data.ok
       THEN /\ broker_up
            /\ failedQueue' = lpush(failedQueue, job_data_str)
            /\ lastOutcome' = [job |-> job_data_str, result |-> "malformed"]
            /\ job_data_str' = NoJob
            /\ pc' = "loop"
            /\ UNCHANGED attempt
       ELSE IF ~job_data.is_dict
       THEN /\ pc' = "loop_error"
            /\ UNCHANGED << failedQueue, lastOutcome, job_data_str, attempt >>
       ELSE /\ attempt' = 1
            /\ pc' = "attempt"
            /\ UNCHANGED << failedQueue, lastOutcome, job_data_str >>
    /\ UNCHANGED << detailVars, workQueue, nextId, shutdown_requested, exc, dbVars, runVars,
                    sleeps, dequeues, dequeuedAfterSignal >>

\* json.loads of the payload; an undecodable payload goes to the failed
\* queue and the loop continues.  Otherwise process_job is entered: a job
\* without session_id returns False at once, else the retry loop starts.
ParseJob ==
    /\ pc = "parse"
    /\ LET job_data == json_loads(job_data_str) IN
       IF ~job_data.ok
       THEN /\ broker_up
            /\ failedQueue' = lpush(failedQueue, job_data_str)
            /\ lastOutcome' = [job |-> job_data_str, result |-> "malformed"]
            /\ job_data_str' = NoJob
            /\ pc' = "loop"
            /\ UNCHANGED attempt
       ELSE IF ~job_data.is_dict
       THEN /\ pc' = "loop_error"
            /\ UNCHANGED << failedQueue, lastOutcome, job_data_str, attempt >>
       ELSE IF job_data.session_id = ""
       THEN /\ pc' = "push_failed"
            /\ UNCHANGED << failedQueue, lastOutcome, job_data_str, attempt >>
       ELSE /\ attempt' = 1
            /\ pc' = "attempt"
            /\ UNCHANGED << failedQueue, lastOutcome, job_data_str >>
    /\ UNCHANGED << detailVars, workQueue, nextId, shutdown_requested, exc, dbVars, runVars,
                    sleeps, dequeues, dequeuedAfterSignal >>

\* process_job returned True.
JobSucceeded ==
    /\ pc = "returned"
    /\ pc' = "loop"
    /\ lastOutcome' = [job |-> job_data_str, result |-> "succeeded"]
    /\ job_data_str' = NoJob
    /\ ResetLocals
    /\ UNCHANGED << sideVars, queueVars, shutdown_requested, dbVars, dequeues,
                    dequeuedAfterSignal >>

\* process_job returned False: the raw payload is pushed to the failed queue.
PushFailed ==
    /\ pc = "push_failed"
    /\ broker_up
    /\ failedQueue' = lpush(failedQueue, job_data_str)
    /\ lastOutcome' =
         [job |-> job_data_str, result |-> IF attempt = 0 THEN "rejected" ELSE "exhausted"]
    /\ job_data_str' = NoJob
    /\ pc' = "loop"
    /\ ResetLocals
    /\ UNCHANGED << sideVars, workQueue, nextId, shutdown_requested, dbVars,
                    dequeues, dequeuedAfterSignal >>

\* ------------------------------------------------------------------------
\* worker.process_job: the except branch of the retry loop
\* ------------------------------------------------------------------------
\* An attempt before the last failed: sleep RETRY_DELAY_BASE * 2^(attempt-1).
ExceptRetry ==
    /\ pc = "except"
    /\ attempt < MAX_RETRIES
    /\ sleeps' = Append(sleeps, RetryDelay(attempt))
    /\ pc' = "sleeping"
    /\ UNCHANGED << detailVars, queueVars, shutdown_requested, job_data_str, attempt, exc,
                    dbVars, runVars, histVars >>

\* time.sleep returns and the for loop takes the next attempt.
WakeUp ==
    /\ pc = "sleeping"
    /\ attempt' = attempt + 1
    /\ pc' = "attempt"
    /\ UNCHANGED << detailVars, queueVars, shutdown_requested, job_data_str, exc, dbVars,
                    runVars, sleeps, histVars >>

\* Variant of update_session_failure that stores the message unsliced.
update_session_failure_NoSlice(rows, sid, error_msg) ==
    IF sid \in DbSessionIds
    THEN [rows EXCEPT ![sid].status = "failed", ![sid].error_message = error_msg]
    ELSE rows

\* update_session_failure: status failed and the truncated message, when the
\* row exists.
update_session_failure(rows, sid, error_msg) ==
    IF sid \in DbSessionIds
    THEN [rows EXCEPT ![sid].status = "failed",
                      ![sid].error_message = Truncate(error_msg, ErrorMessageLimit)]
    ELSE rows

\* The last attempt failed: mark the session failed and return False.
ExceptFinal ==
    /\ pc = "except"
    /\ attempt >= MAX_RETRIES
    /\ sessions' = update_session_failure(sessions, CurSid, exc)
    /\ pc' = "push_failed"
    /\ UNCHANGED << detailVars, queueVars, shutdown_requested, job_data_str, attempt, exc,
                    speakerRows, storageObjects, runVars, sleeps, histVars >>

\* ------------------------------------------------------------------------
\* processor.process_session
\* ------------------------------------------------------------------------
\* Variant of MarkFailed that records the message and leaves the status.
MarkFailed_NoStatus(rows, sid, e) ==
    IF sid \in DbSessionIds
    THEN [rows EXCEPT ![sid].error_message = e]
    ELSE rows

\* The except block of process_session: the row, when it exists, gets status
\* failed and error_message str(e).
MarkFailed(rows, sid, e) ==
    IF sid \in DbSessionIds
    THEN [rows EXCEPT ![sid].status = "failed", ![sid].error_message = e]
    ELSE rows

\* process_job calls process_session_sync: the row is looked up, set to
\* processing with progress 0, and the first stage is announced.  A missing
\* row raises ProcessingError("Session not found").
StartSession ==
    /\ pc = "attempt"
    /\ invocations' = invocations + 1
    /\ segments' = << >>
    /\ nCached' = 0
    /\ aggIdx' = 0
    /\ speaker_records' = {}
    /\ summary' = NoSummary
    /\ IF CurSid \in DbSessionIds
       THEN LET log == << DirectWrite(0), StageWrite("concatenating", 0) >> IN
            /\ progressLog' = log
            /\ sessions' = [sessions EXCEPT
                 ![CurSid] = WithProgress([@ EXCEPT !.status = "processing"], log)]
            /\ exc' = NoMsg
            /\ pc' = "concatenating"
       ELSE /\ progressLog' = << >>
            /\ sessions' = sessions
            /\ exc' = WrapProcessingError(Err(SessionNotFoundLen))
            /\ pc' = "except"
    /\ TxLocalsCleared
    /\ UNCHANGED << sideVars, queueVars, shutdown_requested, job_data_str, attempt,
                    speakerRows, storageObjects, sleeps, dequeues, lastOutcome, dequeuedAfterSignal >>

\* The positions of process_session at which the call in progress can raise:
\* concatenate_chunks, run_diarization, transcribe_and_count (its queries, the
\* gather and the aggregation), save_speaker_results, generate_speaker_samples
\* (its commit) and the upload of the full audio.
RaisePoints ==
    { "concatenating", "diarizing", "transcribing", "tx_batch", "tx_aggregate",
      "tx_done", "saving_results", "generating_samples", "uploading" }

\* The call in progress raises e; the except block marks the session failed
\* and re-raises ProcessingError(f"Processing failed: {e}").
StageRaises ==
    /\ pc \in RaisePoints
    /\ \E n \in ErrLens :
         LET e == Err(n) IN
         /\ sessions' = MarkFailed(sessions, CurSid, e)
         /\ exc' = WrapProcessingError(e)
    /\ pc' = "except"
    /\ TxLocalsCleared
    /\ UNCHANGED << sideVars, queueVars, shutdown_requested, job_data_str, attempt,
                    speakerRows, storageObjects, runVars, sleeps, dequeues, lastOutcome,
                    dequeuedAfterSignal >>

\* Variant of Concatenate that announces diarizing without reporting the
\* end of concatenating.
Concatenate_No100 ==
    /\ pc = "concatenating"
    /\ LET log == Append(progressLog, StageWrite("diarizing", 0)) IN
       /\ progressLog' = log
       /\ sessions' = [sessions EXCEPT ![CurSid] = WithProgress(@, log)]
    /\ pc' = "diarizing"
    /\ UNCHANGED << detailVars, queueVars, shutdown_requested, job_data_str, attempt, exc,
                    speakerRows, storageObjects, segments, nCached, aggIdx,
                    speaker_records, summary, sleeps, invocations, histVars >>

\* Stage 1: concatenate_chunks returned; its 100% and the 0% of diarizing
\* are committed.
Concatenate ==
    /\ pc = "concatenating"
    /\ LET log == progressLog \o
                  << StageWrite("concatenating", 100), StageWrite("diarizing", 0) >> IN
       /\ progressLog' = log
       /\ sessions' = [sessions EXCEPT ![CurSid] = WithProgress(@, log)]
    /\ pc' = "diarizing"
    /\ UNCHANGED << detailVars, queueVars, shutdown_requested, job_data_str, attempt, exc,
                    speakerRows, storageObjects, segments, nCached, aggIdx, speaker_records,
                    summary, sleeps, invocations, histVars >>

\* Stage 2: run_diarization returned segs (the speaker_id of each segment).
\* No segment: the session is ready for claiming at once and the summary is
\* returned.  Else transcribing is announced.
Diarize ==
    /\ pc = "diarizing"
    /\ \E segs \in SeqsUpTo(Speakers, MaxSegments) :
         /\ segments' = segs
         /\ IF segs = << >>
            THEN LET log == progressLog \o
                            << StageWrite("diarizing", 100), DirectWrite(100) >> IN
                 /\ progressLog' = log
                 /\ sessions' = [sessions EXCEPT
                      ![CurSid] = WithProgress([@ EXCEPT !.status = "ready_for_claiming"], log)]
                 /\ summary' = [speakers |-> 0, segments |-> 0]
                 /\ pc' = "returned"
            ELSE LET log == progressLog \o
                            << StageWrite("diarizing", 100), StageWrite("transcribing", 0) >> IN
                 /\ progressLog' = log
                 /\ sessions' = [sessions EXCEPT ![CurSid] = WithProgress(@, log)]
                 /\ summary' = summary
                 /\ pc' = "transcribing"
    /\ UNCHANGED << detailVars, queueVars, shutdown_requested, job_data_str, attempt, exc,
                    speakerRows, storageObjects, nCached, aggIdx, speaker_records, sleeps, invocations, histVars >>

Max(a, b) == IF a > b THEN a ELSE b

\* Percentage reported once the cached segments are counted, and after
\* result i (0-based) of the batch is aggregated.
cached_progress(n_cached, total_segments) ==
    (n_cached * 100) \div Max(total_segments, 1)
result_progress(n_cached, i, total_segments) ==
    ((n_cached + i + 1) * 100) \div total_segments

\* Stage 3, first part of transcribe_and_count: c of the segments are served
\* from the chunk cache and counted; their share is reported.
TranscribeCached ==
    /\ pc = "transcribing"
    /\ \E c \in 0..Len(segments) :
         /\ nCached' = c
         /\ LET log == Append(progressLog,
                         StageWrite("transcribing", cached_progress(c, Len(segments)))) IN
            /\ progressLog' = log
            /\ sessions' = [sessions EXCEPT ![CurSid] = WithProgress(@, log)]
         /\ pc' = IF c < Len(segments) THEN "tx_batch" ELSE "tx_done"
    /\ aggIdx' = 0
    /\ UNCHANGED << detailVars, queueVars, shutdown_requested, job_data_str, attempt, exc,
                    speakerRows, storageObjects, segments, speaker_records, summary, sleeps,
                    invocations, histVars >>

\* asyncio.gather over the uncached segments returned: every task finished.
GatherTranscriptions ==
    /\ pc = "tx_batch"
    /\ pc' = "tx_aggregate"
    /\ UNCHANGED << detailVars, queueVars, shutdown_requested, job_data_str, attempt, exc,
                    dbVars, runVars, sleeps, histVars >>

\* One iteration of the aggregation loop over the results of the batch.
AggregateResult ==
    /\ pc = "tx_aggregate"
    /\ aggIdx < Len(segments) - nCached
    /\ LET log == Append(progressLog,
                    StageWrite("transcribing",
                               result_progress(nCached, aggIdx, Len(segments)))) IN
       /\ progressLog' = log
       /\ sessions' = [sessions EXCEPT ![CurSid] = WithProgress(@, log)]
    /\ aggIdx' = aggIdx + 1
    /\ pc' = IF aggIdx + 1 < Len(segments) - nCached THEN "tx_aggregate" ELSE "tx_done"
    /\ UNCHANGED << detailVars, queueVars, shutdown_requested, job_data_str, attempt, exc,
                    speakerRows, storageObjects, segments, nCached, speaker_records, summary,
                    sleeps, invocations, histVars >>

\* transcribe_and_count reports 100% and returns; process_session reports
\* 100% again and announces saving_results.
FinishTranscribe ==
    /\ pc = "tx_done"
    /\ LET log == progressLog \o
                  << StageWrite("transcribing", 100), StageWrite("transcribing", 100),
                     StageWrite("saving_results", 0) >> IN
       /\ progressLog' = log
       /\ sessions' = [sessions EXCEPT ![CurSid] = WithProgress(@, log)]
    /\ pc' = "saving_results"
    /\ UNCHANGED << detailVars, queueVars, shutdown_requested, job_data_str, attempt, exc,
                    speakerRows, storageObjects, segments, nCached, aggIdx, speaker_records,
                    summary, sleeps, invocations, histVars >>

\* Stage 4: save_speaker_results inserts one SessionSpeaker row per speaker_id
\* of the segments and commits.
save_speaker_results(rows, sid, segs) ==
    [rows EXCEPT ![sid] =
        [k \in Speakers |-> IF k \in SpeakerIdsOf(segs) THEN @[k] + 1 ELSE @[k]]]

SaveResults ==
    /\ pc = "saving_results"
    /\ speakerRows' = save_speaker_results(speakerRows, CurSid, segments)
    /\ speaker_records' = SpeakerIdsOf(segments)
    /\ LET log == progressLog \o
                  << StageWrite("saving_results", 100),
                     StageWrite("generating_samples", 0) >> IN
       /\ progressLog' = log
       /\ sessions' = [sessions EXCEPT ![CurSid] = WithProgress(@, log)]
    /\ pc' = "generating_samples"
    /\ UNCHANGED << detailVars, queueVars, shutdown_requested, job_data_str, attempt, exc,
                    storageObjects, segments, nCached, aggIdx, summary, sleeps, invocations, histVars >>

\* Stage 5: generate_speaker_samples returned (a clip that could not be made
\* is logged and skipped inside it).
GenerateSamples ==
    /\ pc = "generating_samples"
    /\ LET log == Append(progressLog, StageWrite("generating_samples", 100)) IN
       /\ progressLog' = log
       /\ sessions' = [sessions EXCEPT ![CurSid] = WithProgress(@, log)]
    /\ pc' = "uploading"
    /\ UNCHANGED << detailVars, queueVars, shutdown_requested, job_data_str, attempt, exc,
                    speakerRows, storageObjects, segments, nCached, aggIdx, speaker_records,
                    summary, sleeps, invocations, histVars >>

FullAudioUrl(sid) == << "public_url", sid, "full_audio.wav" >>

\* Variant of UploadAudio that commits the terminal status without the URL.
UploadAudio_StatusOnly ==
    /\ pc = "uploading"
    /\ LET log == Append(progressLog, DirectWrite(100)) IN
       /\ progressLog' = log
       /\ sessions' = [sessions EXCEPT
            ![CurSid] = WithProgress([@ EXCEPT !.status = "ready_for_claiming"], log)]
    /\ summary' = [speakers |-> Cardinality(speaker_records),
                   segments |-> Len(segments)]
    /\ storageObjects' = storageObjects \cup {CurSid}
    /\ pc' = "returned"
    /\ UNCHANGED << detailVars, queueVars, shutdown_requested, job_data_str, attempt, exc,
                    speakerRows, segments, nCached, aggIdx, speaker_records,
                    sleeps, invocations, histVars >>

\* The full audio is uploaded; audio_url, status ready_for_claiming and
\* progress 100 are committed together and the summary is returned.
UploadAudio ==
    /\ pc = "uploading"
    /\ LET log == Append(progressLog, DirectWrite(100)) IN
       /\ progressLog' = log
       /\ sessions' = [sessions EXCEPT
            ![CurSid] = WithProgress([@ EXCEPT !.audio_url = FullAudioUrl(CurSid),
                                               !.status = "ready_for_claiming"], log)]
    /\ summary' = [speakers |-> Cardinality(speaker_records),
                   segments |-> Len(segments)]
    /\ storageObjects' = storageObjects \cup {CurSid}
    /\ pc' = "returned"
    /\ UNCHANGED << detailVars, queueVars, shutdown_requested, job_data_str, attempt, exc,
                    speakerRows, segments, nCached, aggIdx, speaker_records,
                    sleeps, invocations, histVars >>

\* ------------------------------------------------------------------------
\* Specification
\* ------------------------------------------------------------------------
Next ==
    \/ Enqueue
    \/ signal_handler
    \/ Crash
    \/ BrpopCall
    \/ WorkerExit
    \/ BrpopTimeout
    \/ BrpopReturn
    \/ ParseJob
    \/ JobSucceeded
    \/ PushFailed
    \/ ExceptRetry
    \/ WakeUp
    \/ ExceptFinal
    \/ StartSession
    \/ StageRaises
    \/ Concatenate
    \/ Diarize
    \/ TranscribeCached
    \/ GatherTranscriptions
    \/ AggregateResult
    \/ FinishTranscribe
    \/ SaveResults
    \/ GenerateSamples
    \/ UploadAudio

Spec == Init /\ [][Next]_vars

TypeOK ==
    /\ pc \in { "loop", "brpop", "parse", "attempt", "except", "sleeping",
                "push_failed", "returned", "exited", "crashed" } \cup RaisePoints
    /\ attempt \in 0..MAX_RETRIES
    /\ Len(workQueue) <= MaxJobs
    /\ \A s \in DbSessionIds : sessions[s].progress \in 0..100

\* ------------------------------------------------------------------------
\* services/transcription_cache.py: get_text_for_time_range
\* ------------------------------------------------------------------------
\* Times are whole seconds; for such values the float quotient
\* coverage / segment_duration compares with 0.8 as the exact quotient does.
\* duration_seconds 0 stands for a missing value.
ChunkDurations == {0, 5}

\* float(chunk.duration_seconds or 30.0)
ChunkDuration(d) == IF d = 0 THEN DefaultChunkDuration ELSE d

\* chunk_times: 'start' and 'end' of the n-th chunk in chunk_number order.
RECURSIVE ChunkStart(_, _)
ChunkStart(chs, n) ==
    IF n = 1 THEN 0 ELSE ChunkStart(chs, n - 1) + ChunkDuration(chs[n - 1])
ChunkEnd(chs, n) == ChunkStart(chs, n) + ChunkDuration(chs[n])

\* overlap_start, overlap_end and the test overlap_start < overlap_end.
overlap_start(chs, n, st) == Max(ChunkStart(chs, n), st)
overlap_end(chs, n, en) == Min(ChunkEnd(chs, n), en)
Overlaps(chs, n, st, en) == overlap_start(chs, n, st) < overlap_end(chs, n, en)

\* coverage after the loop has visited the first k chunks.
RECURSIVE CoverageUpTo(_, _, _, _)
CoverageUpTo(chs, k, st, en) ==
    IF k = 0 THEN 0
    ELSE CoverageUpTo(chs, k - 1, st, en)
         + (IF Overlaps(chs, k, st, en)
            THEN overlap_end(chs, k, en) - overlap_start(chs, k, st)
            ELSE 0)

\* Variant of OverlappingText that puts the text of a later chunk first.
RECURSIVE OverlappingText_Descending(_, _, _, _, _)
OverlappingText_Descending(cch, chs, k, st, en) ==
    IF k = 0 THEN << >>
    ELSE (IF Overlaps(chs, k, st, en) /\ k \in DOMAIN cch THEN cch[k] ELSE << >>)
         \o OverlappingText_Descending(cch, chs, k - 1, st, en)

\* overlapping_text after the loop has visited the first k chunks, joined.
RECURSIVE OverlappingText(_, _, _, _, _)
OverlappingText(cch, chs, k, st, en) ==
    IF k = 0 THEN << >>
    ELSE OverlappingText(cch, chs, k - 1, st, en)
         \o (IF Overlaps(chs, k, st, en) /\ k \in DOMAIN cch THEN cch[k] ELSE << >>)

\* Variant of get_text_for_time_range whose threshold test is <=.
get_text_for_time_range_Strict(cch, chs, st, en) ==
    IF chs = << >> THEN None
    ELSE IF en - st <= 0 THEN None
    ELSE IF CoverageUpTo(chs, Len(chs), st, en) * 100 <= MinCoveragePercent * (en - st)
    THEN None
    ELSE IF OverlappingText(cch, chs, Len(chs), st, en) = << >> THEN None
    ELSE Str(OverlappingText(cch, chs, Len(chs), st, en))

\* get_text_for_time_range(cached, chunks, start_time, end_time)
get_text_for_time_range(cch, chs, st, en) ==
    IF chs = << >> THEN None
    ELSE IF en - st <= 0 THEN None
    ELSE IF CoverageUpTo(chs, Len(chs), st, en) * 100 < MinCoveragePercent * (en - st)
    THEN None
    ELSE IF OverlappingText(cch, chs, Len(chs), st, en) = << >> THEN None
    ELSE Str(OverlappingText(cch, chs, Len(chs), st, en))

\* if cached_text: (None and the empty string are both false)
Truthy(t) == t.found /\ t.text # << >>

\* transcribe_and_count sorts one segment into cached_segments or
\* uncached_segments.
ClassifySegment ==
    /\ classified = "none"
    /\ LET t == get_text_for_time_range(cached, chunks, segment.start_time,
                                        segment.end_time) IN
       /\ cached_text' = t
       /\ classified' = IF Truthy(t) THEN "cached" ELSE "uncached"
       /\ cached_segments' =
            IF Truthy(t)
            THEN << [speaker_id |-> "SPEAKER_00", count |-> Len(t.text)] >>
            ELSE << >>
       /\ uncached_segments' = IF Truthy(t) THEN << >> ELSE << "SPEAKER_00" >>
    /\ UNCHANGED << workerVars, tasks, semaphore, completion_order,
                    speaker_word_counts, word_count_rows,
                    chunks, cached, segment, cacheVars >>

\* if uncached_segments: one transcription coroutine per uncached segment is
\* handed to asyncio.gather.
StartBatch ==
    /\ classified # "none"
    /\ uncached_segments # << >>
    /\ tasks = << >>
    /\ tasks' = [i \in 1..Len(uncached_segments) |-> "pending"]
    /\ semaphore' = SemaphoreLimit
    /\ UNCHANGED << workerVars, coverVars, cacheVars, cached_segments, uncached_segments,
                    completion_order, speaker_word_counts, word_count_rows >>

\* Every AudioChunk list, cache dict and segment within the bounds.
CachedDicts ==
    UNION { { f \in [D -> UNION { TextsOf(n) : n \in D }] :
                \A n \in D : f[n] \in TextsOf(n) } : D \in SUBSET (1..MaxChunks) }

CoverInit ==
    /\ WorkerInit
    /\ chunks \in SeqsUpTo(ChunkDurations, MaxChunks)
    /\ cached \in CachedDicts
    /\ segment \in [start_time : 0..MaxTime, end_time : 0..MaxTime]
    /\ cached_text = None
    /\ classified = "none"
    /\ CacheIdle /\ ApiIdle
    /\ TxIdle

CoverNext ==
    \/ ClassifySegment
    \/ StartBatch

CoverSpec == CoverInit /\ [][CoverNext]_vars

\* ------------------------------------------------------------------------
\* services/transcription_cache.py: transcribe_chunk_background and
\* get_cached_transcriptions
\* ------------------------------------------------------------------------
CacheErrLen == 501

CacheRow(at, msg, text) ==
    [transcribed_at |-> at, error_message |-> msg, corrected_text |-> text]

\* db.query(ChunkTranscription).filter(session_id, chunk_number).first()
HasRow(tbl, n) == tbl[n] # << >>
first(tbl, n) == tbl[n][1]

\* db.add(cache_entry) and db.commit(): the unique index on (session_id,
\* chunk_number) rejects the INSERT when the key has a row.
commit_insert(tbl, n, row) ==
    IF HasRow(tbl, n)
    THEN [ok |-> FALSE, table |-> tbl]
    ELSE [ok |-> TRUE, table |-> [tbl EXCEPT ![n] = Append(@, row)]]

\* Variant of record_error that writes only to a row that exists.
record_error_NoCreate(tbl, n, e) ==
    IF HasRow(tbl, n)
    THEN [tbl EXCEPT ![n][1].error_message = e]
    ELSE tbl

\* The except block: the row of the key gets error_message str(e)[:500]; a
\* row with only the key and the message is created when there is none.
record_error(tbl, n, e) ==
    IF HasRow(tbl, n)
    THEN [tbl EXCEPT ![n][1].error_message = e]
    ELSE [tbl EXCEPT ![n] = << CacheRow(FALSE, e, << >>) >>]

\* get_cached_transcriptions: the rows with transcribed_at set, as a dict by
\* chunk_number (a later row of the same key replaces an earlier one).
Transcribed(rows) == SelectSeq(rows, LAMBDA r : r.transcribed_at)
get_cached_transcriptions(tbl) ==
    [n \in { m \in DOMAIN tbl : Transcribed(tbl[m]) # << >> } |->
        Transcribed(tbl[n])[Len(Transcribed(tbl[n]))]]

\* transcribe_chunk_background(session_id, chunk_number, ...) is called; the
\* calls are numbered in the order they are made.
BgStart(t) ==
    /\ bg[t].pc = "idle"
    /\ \A u \in 1..(t - 1) : bg[u].pc # "idle"
    /\ \E n \in ChunkNumbers :
         bg' = [bg EXCEPT ![t] =
                  [BgTask("query", n, "none") EXCEPT !.cached_at_start =
                      HasRow(chunk_transcriptions, n)
                      /\ first(chunk_transcriptions, n).transcribed_at]]
    /\ UNCHANGED << workerVars, txVars, coverVars, chunk_transcriptions, cached_rows >>

\* The idempotency check: return when the row is already transcribed.
BgQuery(t) ==
    /\ bg[t].pc = "query"
    /\ LET n == bg[t].chunk_number
           has == HasRow(chunk_transcriptions, n) IN
       IF has /\ first(chunk_transcriptions, n).transcribed_at
       THEN bg' = [bg EXCEPT ![t].pc = "returned", ![t].outcome = "skipped"]
       ELSE bg' = [bg EXCEPT ![t].pc = "transcribe", ![t].existing = has]
    /\ UNCHANGED << workerVars, txVars, coverVars, chunk_transcriptions, cached_rows >>

\* transcribe_audio returned; apply_corrections gave corrected_text.
BgTranscribe(t) ==
    /\ bg[t].pc = "transcribe"
    /\ \E text \in TextsOf(bg[t].chunk_number) :
         bg' = [bg EXCEPT ![t].pc = "commit", ![t].corrected_text = text,
                          ![t].calls = @ + 1]
    /\ UNCHANGED << workerVars, txVars, coverVars, chunk_transcriptions, cached_rows >>

\* The query, the transcription or the commit raises.
BgRaises(t) ==
    /\ bg[t].pc \in {"query", "transcribe", "commit"}
    /\ bg' = [bg EXCEPT ![t].pc = "except",
                        ![t].calls = IF bg[t].pc = "transcribe" THEN @ + 1 ELSE @]
    /\ UNCHANGED << workerVars, txVars, coverVars, chunk_transcriptions, cached_rows >>

\* The upsert: the row loaded by the check is updated, else a row is added;
\* db.commit().  A rejected INSERT raises.
BgCommit(t) ==
    /\ bg[t].pc = "commit"
    /\ LET n == bg[t].chunk_number
           row == CacheRow(TRUE, NoMsg, bg[t].corrected_text)
           ins == commit_insert(chunk_transcriptions, n, row)
           done == [bg EXCEPT ![t].pc = "returned", ![t].outcome = "cached",
                              ![t].existing = FALSE, ![t].corrected_text = << >>] IN
       IF bg[t].existing
       THEN /\ chunk_transcriptions' = [chunk_transcriptions EXCEPT ![n][1] = row]
            /\ bg' = done
       ELSE IF ins.ok
       THEN /\ chunk_transcriptions' = ins.table
            /\ bg' = done
       ELSE /\ chunk_transcriptions' = chunk_transcriptions
            /\ bg' = [bg EXCEPT ![t].pc = "except"]
    /\ UNCHANGED << workerVars, txVars, coverVars, cached_rows >>

\* except Exception as e: the error is recorded in the row and committed.
BgRecordError(t) ==
    /\ bg[t].pc = "except"
    /\ chunk_transcriptions' =
         record_error(chunk_transcriptions, bg[t].chunk_number,
                      Truncate(Err(CacheErrLen), ErrorMessageLimit))
    /\ bg' = [bg EXCEPT ![t].pc = "returned", ![t].outcome = "recorded",
                        ![t].existing = FALSE, ![t].corrected_text = << >>]
    /\ UNCHANGED << workerVars, txVars, coverVars, cached_rows >>

\* The recording itself raises: except Exception: pass.
BgRecordFails(t) ==
    /\ bg[t].pc = "except"
    /\ bg' = [bg EXCEPT ![t].pc = "returned", ![t].outcome = "dropped",
                        ![t].existing = FALSE, ![t].corrected_text = << >>]
    /\ UNCHANGED << workerVars, txVars, coverVars, chunk_transcriptions, cached_rows >>

\* transcribe_and_count reads the cache of the session.
GetCached ==
    /\ ~cached_rows.queried
    /\ cached_rows' =
         [queried |-> TRUE, rows |-> get_cached_transcriptions(chunk_transcriptions)]
    /\ UNCHANGED << workerVars, txVars, coverVars, chunk_transcriptions, bg >>

CacheInit == WorkerInit /\ CoverIdle /\ CacheIdle /\ ApiIdle /\ TxIdle

CacheNext ==
    \/ \E t \in BgTasks :
         \/ BgStart(t)
         \/ BgQuery(t)
         \/ BgTranscribe(t)
         \/ BgRaises(t)
         \/ BgCommit(t)
         \/ BgRecordError(t)
         \/ BgRecordFails(t)
    \/ GetCached

CacheSpec == CacheInit /\ [][CacheNext]_vars

\* ------------------------------------------------------------------------
\* processor.transcribe_and_count and save_speaker_results in detail
\* ------------------------------------------------------------------------
\* One target word is counted.  A segment is either sent to direct
\* transcription or served from the cache with a text that holds the word
\* no or one time; a transcription task fails or finds the word no or one
\* time.
SegmentClasses == {"uncached", "cached_no_word", "cached_one_word"}
TaskResults == {"failed", "no_word", "one_word"}

RECURSIVE CachedOf(_, _)
CachedOf(segs, cls) ==
    IF segs = << >> THEN << >>
    ELSE (IF Head(cls) = "uncached" THEN << >>
          ELSE << [speaker_id |-> Head(segs),
                   count |-> IF Head(cls) = "cached_one_word" THEN 1 ELSE 0] >>)
         \o CachedOf(Tail(segs), Tail(cls))

RECURSIVE UncachedOf(_, _)
UncachedOf(segs, cls) ==
    IF segs = << >> THEN << >>
    ELSE (IF Head(cls) = "uncached" THEN << Head(segs) >> ELSE << >>)
         \o UncachedOf(Tail(segs), Tail(cls))

\* speaker_word_counts[speaker_id][word] += count
AddCount(counts, k, c) == [counts EXCEPT ![k] = @ + c]

RECURSIVE AddCounts(_, _)
AddCounts(counts, cs) ==
    IF cs = << >> THEN counts
    ELSE AddCounts(AddCount(counts, Head(cs).speaker_id, Head(cs).count), Tail(cs))

\* word_counts of a task result: {} for a failed task and for a text
\* without the word.
CountOf(r) == IF r = "one_word" THEN 1 ELSE 0

\* Lines 362-401: the segments are sorted into the two lists, the cached
\* ones are counted and their share of the stage is reported; the
\* semaphore and the coroutines of the batch are created.
TxClassify ==
    /\ pc = "transcribing"
    /\ \E cls \in [1..Len(segments) -> SegmentClasses] :
         LET cs == CachedOf(segments, cls)
             us == UncachedOf(segments, cls)
             log == Append(progressLog,
                      StageWrite("transcribing", cached_progress(Len(cs), Len(segments)))) IN
         /\ cached_segments' = cs
         /\ uncached_segments' = us
         /\ speaker_word_counts' = AddCounts(NoCounts, cs)
         /\ completion_order' = << >>
         /\ nCached' = Len(cs)
         /\ tasks' = [i \in 1..Len(us) |-> "pending"]
         /\ semaphore' = IF us # << >> THEN SemaphoreLimit ELSE 0
         /\ progressLog' = log
         /\ sessions' = [sessions EXCEPT ![CurSid] = WithProgress(@, log)]
         /\ pc' = IF us # << >> THEN "tx_batch" ELSE "tx_done"
    /\ aggIdx' = 0
    /\ UNCHANGED << sideVars, queueVars, shutdown_requested, job_data_str, attempt,
                    exc, speakerRows, storageObjects, segments, speaker_records,
                    summary, sleeps, invocations, histVars >>

\* Variant of TaskAcquire that enters without looking at the semaphore.
TaskAcquire_NoLimit(i) ==
    /\ pc = "tx_batch"
    /\ i \in DOMAIN tasks
    /\ tasks[i] = "pending"
    /\ \A j \in 1..(i - 1) : tasks[j] # "pending"
    /\ tasks' = [tasks EXCEPT ![i] = "running"]
    /\ semaphore' = semaphore - 1
    /\ UNCHANGED << workerVars, sideVars, cached_segments, uncached_segments,
                    completion_order, speaker_word_counts >>

\* async with semaphore: the oldest waiting coroutine enters when the value
\* is positive and starts transcribe_segment.
TaskAcquire(i) ==
    /\ pc = "tx_batch"
    /\ i \in DOMAIN tasks
    /\ tasks[i] = "pending"
    /\ \A j \in 1..(i - 1) : tasks[j] # "pending"
    /\ semaphore > 0
    /\ tasks' = [tasks EXCEPT ![i] = "running"]
    /\ semaphore' = semaphore - 1
    /\ UNCHANGED << workerVars, sideVars, cached_segments, uncached_segments,
                    completion_order, speaker_word_counts >>

\* Variant of TaskFinish in which a failed transcription is not caught: it
\* leaves transcribe_and_count as an exception of the stage.
TaskFinish_Raises(i) ==
    /\ pc = "tx_batch"
    /\ i \in DOMAIN tasks
    /\ tasks[i] = "running"
    /\ \E r \in TaskResults :
         /\ tasks' = [tasks EXCEPT ![i] = r]
         /\ semaphore' = semaphore + 1
         /\ completion_order' = Append(completion_order, i)
         /\ IF r = "failed"
            THEN /\ sessions' = MarkFailed(sessions, CurSid, Err(481))
                 /\ exc' = WrapProcessingError(Err(481))
                 /\ pc' = "except"
            ELSE UNCHANGED << sessions, exc, pc >>
         /\ UNCHANGED << cached_segments, uncached_segments, speaker_word_counts >>
    /\ UNCHANGED << sideVars, queueVars, shutdown_requested, job_data_str, attempt,
                    speakerRows, storageObjects, runVars, sleeps, histVars >>

\* transcribe_segment returns (speaker_id, word_counts), with {} when
\* anything in it raised; the semaphore is released.
TaskFinish(i) ==
    /\ pc = "tx_batch"
    /\ i \in DOMAIN tasks
    /\ tasks[i] = "running"
    /\ \E r \in TaskResults :
         /\ tasks' = [tasks EXCEPT ![i] = r]
         /\ semaphore' = semaphore + 1
         /\ completion_order' = Append(completion_order, i)
         /\ UNCHANGED << sessions, exc, pc, cached_segments, uncached_segments,
                         speaker_word_counts >>
    /\ UNCHANGED << sideVars, queueVars, shutdown_requested, job_data_str, attempt,
                    speakerRows, storageObjects, runVars, sleeps, histVars >>

\* asyncio.gather returns once every coroutine has returned.
TxGather ==
    /\ pc = "tx_batch"
    /\ \A i \in DOMAIN tasks : tasks[i] \in TaskResults
    /\ pc' = "tx_aggregate"
    /\ UNCHANGED << detailVars, queueVars, shutdown_requested, job_data_str, attempt,
                    exc, dbVars, runVars, sleeps, histVars >>

\* Variant of TxAggregate that takes the results in the order in which the
\* calls returned, as if that were the order of the segments.
TxAggregate_AsCompleted ==
    /\ pc = "tx_aggregate"
    /\ aggIdx < Len(tasks)
    /\ speaker_word_counts' =
         AddCount(speaker_word_counts, uncached_segments[aggIdx + 1],
                  CountOf(tasks[completion_order[aggIdx + 1]]))
    /\ LET log == Append(progressLog,
                    StageWrite("transcribing",
                               result_progress(nCached, aggIdx, Len(segments)))) IN
       /\ progressLog' = log
       /\ sessions' = [sessions EXCEPT ![CurSid] = WithProgress(@, log)]
    /\ aggIdx' = aggIdx + 1
    /\ pc' = IF aggIdx + 1 < Len(tasks) THEN "tx_aggregate" ELSE "tx_done"
    /\ UNCHANGED << sideVars, cached_segments, uncached_segments, tasks, semaphore,
                    completion_order, queueVars, shutdown_requested, job_data_str, attempt, exc,
                    speakerRows, storageObjects, segments, nCached, speaker_records,
                    summary, sleeps, invocations, histVars >>

\* One iteration of the loop over results: the counts of the result are
\* added to its speaker and the progress is reported.
TxAggregate ==
    /\ pc = "tx_aggregate"
    /\ aggIdx < Len(tasks)
    /\ speaker_word_counts' =
         AddCount(speaker_word_counts, uncached_segments[aggIdx + 1],
                  CountOf(tasks[aggIdx + 1]))
    /\ LET log == Append(progressLog,
                    StageWrite("transcribing",
                               result_progress(nCached, aggIdx, Len(segments)))) IN
       /\ progressLog' = log
       /\ sessions' = [sessions EXCEPT ![CurSid] = WithProgress(@, log)]
    /\ aggIdx' = aggIdx + 1
    /\ pc' = IF aggIdx + 1 < Len(tasks) THEN "tx_aggregate" ELSE "tx_done"
    /\ UNCHANGED << sideVars, cached_segments, uncached_segments, tasks, semaphore,
                    completion_order, queueVars, shutdown_requested, job_data_str, attempt, exc,
                    speakerRows, storageObjects, segments, nCached, speaker_records,
                    summary, sleeps, invocations, histVars >>

\* save_speaker_results, lines 510-517: one SpeakerWordCount row per word of
\* the speaker's word_counts.
save_word_counts(rows, speaker_results) ==
    [k \in Speakers |->
        IF speaker_results[k] > 0 THEN Append(rows[k], speaker_results[k]) ELSE rows[k]]

\* Stage 4 with both tables.
TxSave ==
    /\ pc = "saving_results"
    /\ speakerRows' = save_speaker_results(speakerRows, CurSid, segments)
    /\ word_count_rows' = save_word_counts(word_count_rows, speaker_word_counts)
    /\ speaker_records' = SpeakerIdsOf(segments)
    /\ LET log == progressLog \o
                  << StageWrite("saving_results", 100),
                     StageWrite("generating_samples", 0) >> IN
       /\ progressLog' = log
       /\ sessions' = [sessions EXCEPT ![CurSid] = WithProgress(@, log)]
    /\ pc' = "generating_samples"
    /\ UNCHANGED << apiVars, coverVars, cacheVars, brokerVars, txLocals, queueVars,
                    shutdown_requested, job_data_str, attempt, exc, storageObjects,
                    segments, nCached,
                    aggIdx, summary, sleeps, invocations, histVars >>

\* A job for session s1 is in the work queue when the worker starts.
TxInit ==
    /\ workQueue = << RawPayload(1, "job", "s1") >>
    /\ nextId = 2
    /\ WorkerStarted
    /\ CoverIdle /\ CacheIdle /\ ApiIdle /\ TxIdle

TxNext ==
    \/ BrpopCall
    \/ BrpopTimeout
    \/ BrpopReturn
    \/ ParseJob
    \/ JobSucceeded
    \/ PushFailed
    \/ ExceptRetry
    \/ WakeUp
    \/ ExceptFinal
    \/ StartSession
    \/ StageRaises
    \/ Concatenate
    \/ Diarize
    \/ TxClassify
    \/ \E i \in 1..MaxSegments : TaskAcquire(i)
    \/ \E i \in 1..MaxSegments : TaskFinish(i)
    \/ TxGather
    \/ TxAggregate
    \/ FinishTranscribe
    \/ TxSave
    \/ GenerateSamples
    \/ UploadAudio

TxSpec == TxInit /\ [][TxNext]_vars

\* The segments served from the cache before the batch: none, or one
\* segment of SPEAKER_01 that holds the word.
SemCachedChoices == { << >>, << [speaker_id |-> "SPEAKER_01", count |-> 1] >> }

\* The uncached segments of the batch: up to MaxSegments segments of any
\* speakers, and up to MaxTasks segments of one speaker.
SemSegmentChoices ==
    SeqsUpTo(Speakers, MaxSegments) \cup SeqsUpTo({"SPEAKER_00"}, MaxTasks)

\* The batch alone: process_session has reached the gather in its first
\* attempt, with n uncached segments behind the cached ones.
SemInit ==
    \E n \in 1..MaxTasks, segs \in SemSegmentChoices, cs \in SemCachedChoices :
        LET log == << DirectWrite(0),
                      StageWrite("concatenating", 0), StageWrite("concatenating", 100),
                      StageWrite("diarizing", 0), StageWrite("diarizing", 100),
                      StageWrite("transcribing", 0),
                      StageWrite("transcribing", cached_progress(Len(cs), Len(cs) + n)) >> IN
        /\ Len(segs) = n
        /\ workQueue = << >>
        /\ failedQueue = << >>
        /\ nextId = 2
        /\ pc = "tx_batch"
        /\ shutdown_requested = FALSE
        /\ job_data_str = RawPayload(1, "job", "s1")
        /\ attempt = 1
        /\ exc = NoMsg
        /\ sessions = [s \in DbSessionIds |->
                         WithProgress(SessionRow("processing", 0, NoMsg, NoUrl), log)]
        /\ speakerRows = [s \in DbSessionIds |-> [k \in Speakers |-> 0]]
        /\ storageObjects = {}
        /\ segments = [i \in 1..Len(cs) |-> cs[i].speaker_id] \o segs
        /\ nCached = Len(cs)
        /\ aggIdx = 0
        /\ speaker_records = {}
        /\ progressLog = log
        /\ summary = NoSummary
        /\ sleeps = << >>
        /\ invocations = 1
        /\ dequeues = [i \in JobIds |-> IF i = 1 THEN 1 ELSE 0]
        /\ lastOutcome = NoOutcome
        /\ dequeuedAfterSignal = 0
        /\ broker_up = TRUE
        /\ reconnect = NoReconnect
        /\ CoverIdle /\ CacheIdle /\ ApiIdle
        /\ cached_segments = cs
        /\ uncached_segments = segs
        /\ tasks = [i \in 1..n |-> "pending"]
        /\ semaphore = SemaphoreLimit
        /\ completion_order = << >>
        /\ speaker_word_counts = AddCounts(NoCounts, cs)
        /\ word_count_rows = [k \in Speakers |-> << >>]

SemNext ==
    \/ \E i \in 1..MaxTasks : TaskAcquire(i)
    \/ \E i \in 1..MaxTasks : TaskFinish(i)
    \/ TxGather
    \/ TxAggregate
    \/ FinishTranscribe

SemSpec == SemInit /\ [][SemNext]_vars

\* ------------------------------------------------------------------------
\* worker.main: the exception handlers of the loop, with a broker that can
\* become unreachable
\* ------------------------------------------------------------------------
ReconnectDelay == 5
LoopErrorDelay == 1

\* The broker becomes unreachable, and reachable again.
BrokerFails ==
    /\ broker_up
    /\ broker_up' = FALSE
    /\ UNCHANGED << reconnect, apiVars, coverVars, cacheVars, txVars, queueVars, pc,
                    shutdown_requested, job_data_str, attempt, exc, dbVars, runVars,
                    sleeps, histVars >>

BrokerRecovers ==
    /\ ~broker_up
    /\ broker_up' = TRUE
    /\ UNCHANGED << reconnect, apiVars, coverVars, cacheVars, txVars, queueVars, pc,
                    shutdown_requested, job_data_str, attempt, exc, dbVars, runVars,
                    sleeps, histVars >>

\* brpop raises redis.exceptions.ConnectionError.
BrpopRaises ==
    /\ pc = "brpop"
    /\ ~broker_up
    /\ pc' = "reconnect"
    /\ UNCHANGED << brokerVars, apiVars, coverVars, cacheVars, txVars, queueVars,
                    shutdown_requested, job_data_str, attempt, exc, dbVars, runVars,
                    sleeps, histVars >>

\* The lpush of a payload that is not JSON raises ConnectionError.
ParseLpushRaises ==
    /\ pc = "parse"
    /\ ~json_loads(job_data_str).ok
    /\ ~broker_up
    /\ lastOutcome' = [job |-> job_data_str, result |-> "lost"]
    /\ job_data_str' = NoJob
    /\ pc' = "reconnect"
    /\ UNCHANGED << brokerVars, apiVars, coverVars, cacheVars, txVars, queueVars,
                    shutdown_requested, attempt, exc, dbVars, runVars, sleeps, dequeues,
                    dequeuedAfterSignal >>

\* process_job returned False and the lpush to the failed queue raises
\* ConnectionError.
LpushRaises ==
    /\ pc = "push_failed"
    /\ ~broker_up
    /\ lastOutcome' = [job |-> job_data_str, result |-> "lost"]
    /\ job_data_str' = NoJob
    /\ pc' = "reconnect"
    /\ ResetLocals
    /\ UNCHANGED << sideVars, queueVars, shutdown_requested, dbVars, dequeues,
                    dequeuedAfterSignal >>

\* Variant of Reconnect that leaves the loop when the new connection fails.
Reconnect_ExitOnFailure ==
    /\ pc = "reconnect"
    /\ reconnect' = [handler |-> "RedisConnectionError", delay |-> ReconnectDelay,
                     connected |-> broker_up]
    /\ pc' = IF broker_up THEN "loop" ELSE "exited"
    /\ UNCHANGED << broker_up, apiVars, coverVars, cacheVars, txVars, queueVars,
                    shutdown_requested, job_data_str, attempt, exc, dbVars, runVars,
                    sleeps, histVars >>

\* except RedisConnectionError: sleep 5 s, build a new client and ping it; a
\* failure of that is logged; the loop goes on.
Reconnect ==
    /\ pc = "reconnect"
    /\ reconnect' = [handler |-> "RedisConnectionError", delay |-> ReconnectDelay,
                     connected |-> broker_up]
    /\ pc' = "loop"
    /\ UNCHANGED << broker_up, apiVars, coverVars, cacheVars, txVars, queueVars,
                    shutdown_requested, job_data_str, attempt, exc, dbVars, runVars,
                    sleeps, histVars >>

\* except Exception: job_data.get raised AttributeError for a decoded value
\* that is not a dict; the error is logged, sleep 1 s, the loop goes on.
LoopErrorSleep ==
    /\ pc = "loop_error"
    /\ reconnect' = [handler |-> "Exception", delay |-> LoopErrorDelay,
                     connected |-> reconnect.connected]
    /\ lastOutcome' = [job |-> job_data_str, result |-> "lost"]
    /\ job_data_str' = NoJob
    /\ pc' = "loop"
    /\ UNCHANGED << broker_up, apiVars, coverVars, cacheVars, txVars, queueVars,
                    shutdown_requested, attempt, exc, dbVars, runVars, sleeps, dequeues,
                    dequeuedAfterSignal >>

\* The payloads of the loop: those of PayloadChoices and a JSON value that is
\* not an object.
LoopPayloadChoices == PayloadChoices \cup { <<"nondict", "-">> }

\* Payloads 1..n wait in the work queue when the worker starts, at most one
\* of them a job for a session that exists.
LoopInit ==
    /\ \E n \in 1..MaxJobs :
         \E f \in [1..n -> LoopPayloadChoices] :
            /\ \A i, j \in 1..n :
                  (f[i][1] = "job" /\ f[i][2] \in DbSessionIds /\ f[j] = f[i]) => i = j
            /\ workQueue = [i \in 1..n |->
                              RawPayload(n + 1 - i, f[n + 1 - i][1], f[n + 1 - i][2])]
            /\ nextId = n + 1
    /\ WorkerStarted
    /\ CoverIdle /\ CacheIdle /\ ApiIdle /\ TxIdle

LoopNext ==
    \/ BrokerFails
    \/ BrokerRecovers
    \/ BrpopCall
    \/ BrpopTimeout
    \/ BrpopReturn
    \/ BrpopRaises
    \/ ParseJob
    \/ ParseLpushRaises
    \/ JobSucceeded
    \/ PushFailed
    \/ LpushRaises
    \/ Reconnect
    \/ LoopErrorSleep
    \/ ExceptRetry
    \/ WakeUp
    \/ ExceptFinal
    \/ StartSession
    \/ StageRaises
    \/ Concatenate
    \/ Diarize
    \/ TranscribeCached
    \/ GatherTranscriptions
    \/ AggregateResult
    \/ FinishTranscribe
    \/ SaveResults
    \/ GenerateSamples
    \/ UploadAudio

LoopSpec == LoopInit /\ [][LoopNext]_vars

\* The steps of the worker process.  It is one thread that runs whenever it
\* can: a call that can return or raise does so.
LoopWorkerNext ==
    \/ BrpopCall
    \/ BrpopTimeout
    \/ BrpopReturn
    \/ BrpopRaises
    \/ ParseJob
    \/ ParseLpushRaises
    \/ JobSucceeded
    \/ PushFailed
    \/ LpushRaises
    \/ Reconnect
    \/ LoopErrorSleep
    \/ ExceptRetry
    \/ WakeUp
    \/ ExceptFinal
    \/ StartSession
    \/ StageRaises
    \/ Concatenate
    \/ Diarize
    \/ TranscribeCached
    \/ GatherTranscriptions
    \/ AggregateResult
    \/ FinishTranscribe
    \/ SaveResults
    \/ GenerateSamples
    \/ UploadAudio

LoopLiveSpec == LoopInit /\ [][LoopNext]_vars /\ WF_vars(LoopWorkerNext)

\* ------------------------------------------------------------------------
\* upload_chunk: the handler of POST /sessions/{session_id}/chunks
\* ------------------------------------------------------------------------
\* The handler is a coroutine: it runs without interruption up to the await
\* of the storage upload, and again from the return of that await to its end.
\* Other requests of the same event loop are handled while it waits.

\* A request for session s1 arrives; the session and the membership exist.
UploadArrives(r) ==
    /\ upload_reqs[r].pc = "idle"
    /\ \A q \in UploadReqs : q < r => upload_reqs[q].pc # "idle"
    /\ upload_reqs' = [upload_reqs EXCEPT ![r].pc = "count"]
    /\ UNCHANGED << audio_chunks, claimVars, backgroundVars >>

\* chunk_number = count of the session's AudioChunk rows + 1; the handler
\* then awaits storage.upload_chunk.
UploadCount(r) ==
    /\ upload_reqs[r].pc = "count"
    /\ upload_reqs' = [upload_reqs EXCEPT
                          ![r] = [pc |-> "await_storage",
                                  chunk_number |-> Len(audio_chunks) + 1]]
    /\ UNCHANGED << audio_chunks, claimVars, backgroundVars >>

\* The storage upload returns: the AudioChunk row is added and committed.
UploadSave(r) ==
    /\ upload_reqs[r].pc = "await_storage"
    /\ audio_chunks' = Append(audio_chunks, upload_reqs[r].chunk_number)
    /\ upload_reqs' = [upload_reqs EXCEPT ![r].pc = "uploaded"]
    /\ UNCHANGED << claimVars, backgroundVars >>

\* The storage upload answers with another status than 200 or 201:
\* storage.upload_chunk raises HTTPException and no row is written.
UploadStorageFails(r) ==
    /\ upload_reqs[r].pc = "await_storage"
    /\ upload_reqs' = [upload_reqs EXCEPT ![r].pc = "failed"]
    /\ UNCHANGED << audio_chunks, claimVars, backgroundVars >>

UploadInit == WorkerInit /\ CoverIdle /\ CacheIdle /\ ApiIdle /\ TxIdle

UploadNext ==
    \E r \in UploadReqs :
        \/ UploadArrives(r)
        \/ UploadCount(r)
        \/ UploadSave(r)
        \/ UploadStorageFails(r)

UploadSpec == UploadInit /\ [][UploadNext]_vars

\* ------------------------------------------------------------------------
\* claim_speaker: the handler of POST /sessions/{session_id}/claim
\* ------------------------------------------------------------------------
\* The handler is a coroutine without an await: from its first query to its
\* return it runs on the event loop without interruption. Its dependencies
\* get_current_user and get_db are plain functions, resolved in the thread
\* pool before the body starts, so several requests can be in flight at once.

Users == {"u1", "u2"}
ClaimTypes == {"self", "user", "guest"}
OtherUser(u) == IF u = "u1" THEN "u2" ELSE "u1"

\* speaker.attributed_to_user_id as the handler sets it, lines 490-496.
AttributedTo(user, claim_type) ==
    IF claim_type = "self" THEN user
    ELSE IF claim_type = "user" THEN OtherUser(user)
    ELSE "null"

\* The WordCount rows added for a claim, lines 500-514: one per
\* SpeakerWordCount row of the speaker, none for a guest.
CopiedWordCounts(k, user, claim_type) ==
    IF claim_type \in {"self", "user"}
    THEN [i \in 1..Len(word_count_rows[k]) |->
            [user_id |-> AttributedTo(user, claim_type), count |-> word_count_rows[k][i]]]
    ELSE << >>

\* The query of lines 521-524 on the table t: the rows without claimed_by.
UnclaimedSpeakers(t) ==
    { k \in Speakers : speakerRows["s1"][k] > 0 /\ t[k].claimed_by = "null" }

\* A valid request of a group member for session s1 is accepted and its
\* dependencies are resolved; the body has not started.
ClaimArrives(r) ==
    /\ claim_reqs[r].pc = "idle"
    /\ \A q \in ClaimReqs : q < r => claim_reqs[q].pc # "idle"
    /\ \E u \in Users, k \in Speakers, t \in ClaimTypes :
          claim_reqs' = [claim_reqs EXCEPT
                           ![r] = [pc |-> "arrived", user |-> u, speaker |-> k,
                                   claim_type |-> t]]
    /\ UNCHANGED << speaker_claims, word_counts, uploadVars, backgroundVars >>

\* Variant of the body without the check of lines 454-458.
ClaimSpeaker_NoCheck(r) ==
    LET q == claim_reqs[r]
        k == q.speaker
        claimed == [speaker_claims EXCEPT
                      ![k] = [claimed_by |-> q.user, claim_type |-> q.claim_type,
                              attributed_to_user_id |-> AttributedTo(q.user, q.claim_type)]] IN
    /\ q.pc = "arrived"
    /\ IF speakerRows["s1"][k] = 0
       THEN /\ claim_reqs' = [claim_reqs EXCEPT ![r].pc = "404"]
            /\ UNCHANGED << speaker_claims, word_counts, sessions >>
       ELSE /\ speaker_claims' = claimed
            /\ word_counts' = word_counts \o CopiedWordCounts(k, q.user, q.claim_type)
            /\ sessions' = IF UnclaimedSpeakers(claimed) = {}
                           THEN [sessions EXCEPT !["s1"].status = "completed"]
                           ELSE sessions
            /\ claim_reqs' = [claim_reqs EXCEPT ![r].pc = "200"]
    /\ UNCHANGED << queueVars, pc, shutdown_requested, job_data_str, attempt, exc,
                    speakerRows, storageObjects, runVars, sleeps, histVars,
                    brokerVars, coverVars, cacheVars, txVars, uploadVars >>

\* The body of claim_speaker, lines 442-540: speaker lookup, the check of
\* claimed_by, the claim columns, the copy into word_counts, the commit,
\* and the completion of the session when no speaker is left unclaimed.
ClaimSpeaker(r) ==
    LET q == claim_reqs[r]
        k == q.speaker
        claimed == [speaker_claims EXCEPT
                      ![k] = [claimed_by |-> q.user, claim_type |-> q.claim_type,
                              attributed_to_user_id |-> AttributedTo(q.user, q.claim_type)]] IN
    /\ q.pc = "arrived"
    /\ IF speakerRows["s1"][k] = 0
       THEN /\ claim_reqs' = [claim_reqs EXCEPT ![r].pc = "404"]
            /\ UNCHANGED << speaker_claims, word_counts, sessions >>
       ELSE IF speaker_claims[k].claimed_by # "null"
       THEN /\ claim_reqs' = [claim_reqs EXCEPT ![r].pc = "400"]
            /\ UNCHANGED << speaker_claims, word_counts, sessions >>
       ELSE /\ speaker_claims' = claimed
            /\ word_counts' = word_counts \o CopiedWordCounts(k, q.user, q.claim_type)
            /\ sessions' = IF UnclaimedSpeakers(claimed) = {}
                           THEN [sessions EXCEPT !["s1"].status = "completed"]
                           ELSE sessions
            /\ claim_reqs' = [claim_reqs EXCEPT ![r].pc = "200"]
    /\ UNCHANGED << queueVars, pc, shutdown_requested, job_data_str, attempt, exc,
                    speakerRows, storageObjects, runVars, sleeps, histVars,
                    brokerVars, coverVars, cacheVars, txVars, uploadVars >>

\* Session s1 after a first successful run: ready for claiming, a
\* SessionSpeaker row for one or both labels, and for each of them no
\* SpeakerWordCount row or one.
ClaimInit ==
    /\ workQueue = << >>
    /\ failedQueue = << >>
    /\ nextId = 1
    /\ pc = "loop"
    /\ shutdown_requested = FALSE
    /\ job_data_str = NoJob
    /\ attempt = 0
    /\ exc = NoMsg
    /\ sessions = [s \in DbSessionIds |-> SessionRow("ready_for_claiming", 100, NoMsg, NoUrl)]
    /\ speakerRows \in [DbSessionIds -> [Speakers -> {0, 1}]]
    /\ \E k \in Speakers : speakerRows["s1"][k] = 1
    /\ storageObjects = {}
    /\ segments = << >>
    /\ nCached = 0
    /\ aggIdx = 0
    /\ speaker_records = {}
    /\ progressLog = << >>
    /\ summary = NoSummary
    /\ sleeps = << >>
    /\ invocations = 0
    /\ dequeues = [i \in JobIds |-> 0]
    /\ lastOutcome = NoOutcome
    /\ dequeuedAfterSignal = 0
    /\ broker_up = TRUE
    /\ reconnect = NoReconnect
    /\ CoverIdle /\ CacheIdle /\ ApiIdle
    /\ cached_segments = << >>
    /\ uncached_segments = << >>
    /\ tasks = << >>
    /\ semaphore = 0
    /\ completion_order = << >>
    /\ speaker_word_counts = NoCounts
    /\ word_count_rows \in [Speakers -> {<< >>, << 2 >>}]
    /\ \A k \in Speakers : speakerRows["s1"][k] = 0 => word_count_rows[k] = << >>

ClaimNext ==
    \E r \in ClaimReqs :
        \/ ClaimArrives(r)
        \/ ClaimSpeaker(r)

ClaimSpec == ClaimInit /\ [][ClaimNext]_vars

\* ------------------------------------------------------------------------
\* Properties
\* ------------------------------------------------------------------------
Range(q) == { q[i] : i \in 1..Len(q) }
Row == sessions["s1"]
TotalSpeakerRows(sid) ==
    speakerRows[sid]["SPEAKER_00"] + speakerRows[sid]["SPEAKER_01"]

\* C1: a job whose pipeline run raises every time is retried exactly 3 times,
\* with delays 5s, 10s and 20s before the retries, before process_job gives
\* up (the job is then dead-lettered and the session marked failed).
C1_RetriedThreeTimes ==
    (pc = "push_failed" /\ attempt > 0) =>
        /\ invocations - 1 = 3
        /\ sleeps = << 5, 10, 20 >>

\* C2: when the last permitted attempt of a job has failed, the next step of
\* the worker pushes the raw payload it dequeued, unchanged, to the failed
\* queue, where it then is exactly once, and the session row has status
\* failed and an error_message of at most 500 characters.
C2_StateAfterExhaustion ==
    lastOutcome.result = "exhausted" =>
        /\ failedQueue # << >>
        /\ failedQueue[1] = lastOutcome.job
        /\ lastOutcome.job.kind = "job"
        /\ dequeues[lastOutcome.job.id] = 1
        /\ CountIn(failedQueue, lastOutcome.job) = 1
        /\ lastOutcome.job.sid \in DbSessionIds =>
             /\ sessions[lastOutcome.job.sid].status = "failed"
             /\ sessions[lastOutcome.job.sid].error_message.len <= 500
             /\ sessions[lastOutcome.job.sid].error_message.len > 0

C2_PushStep ==
    (pc = "push_failed" /\ pc' \notin {"push_failed", "crashed"}) =>
        /\ pc' = "loop"
        /\ failedQueue' = << job_data_str >> \o failedQueue
        /\ workQueue' = workQueue
        /\ sessions' = sessions
        /\ attempt > 0 => lastOutcome'.result = "exhausted"

C3_MalformedHeldOnlyInParse ==
    job_data_str.kind = "garbage" =>
        /\ pc \in {"parse", "crashed"}
        /\ invocations = 0
        /\ sleeps = << >>

C3_MalformedStep ==
    (pc = "parse" /\ job_data_str.kind = "garbage" /\ pc' \notin {"parse", "crashed"}) =>
        /\ pc' = "loop"
        /\ failedQueue' = << job_data_str >> \o failedQueue
        /\ workQueue' = workQueue
        /\ UNCHANGED << sessions, speakerRows, storageObjects >>
        /\ invocations' = 0
        /\ sleeps' = << >>

C3_MalformedAfter ==
    lastOutcome.result = "malformed" =>
        /\ lastOutcome.job.kind = "garbage"
        /\ failedQueue # << >>
        /\ failedQueue[1] = lastOutcome.job
        /\ CountIn(failedQueue, lastOutcome.job) = 1

C3_MalformedToDeadLetter ==
    /\ [](C3_MalformedHeldOnlyInParse /\ C3_MalformedAfter)
    /\ [][C3_MalformedStep]_vars

\* C3 witness: an undecodable payload was dead-lettered and the worker is
\* blocked in the next dequeue.
C3_Witness ==
    /\ lastOutcome.result = "malformed"
    /\ pc = "brpop"
    /\ failedQueue # << >>
    /\ failedQueue[1].kind = "garbage"

C4_NoNewDequeueCall ==
    (pc' = "brpop" /\ pc # "brpop") => ~shutdown_requested

C4_ExitOnlyAtLoopTop ==
    (pc' = "exited" /\ pc # "exited") =>
        (pc = "loop" /\ shutdown_requested /\ job_data_str = NoJob)

C4_AtLoopTopOnlyExit ==
    (pc = "loop" /\ shutdown_requested) => pc' \in {"loop", "exited", "crashed"}

C4_InFlightJobFinished ==
    /\ dequeuedAfterSignal <= 1
    /\ pc = "exited" => (job_data_str = NoJob /\ shutdown_requested)
    /\ pc = "loop" => job_data_str = NoJob

C5_HeldPayloadInNoQueue ==
    /\ \A i \in JobIds : dequeues[i] <= 1
    /\ job_data_str # NoJob =>
         /\ job_data_str \notin Range(workQueue)
         /\ job_data_str \notin Range(failedQueue)
         /\ dequeues[job_data_str.id] = 1
    /\ \A p \in Range(failedQueue) : p \notin Range(workQueue)
    /\ \A p \in Range(workQueue) : dequeues[p.id] = 0

C5_NoPushBack ==
    \A p \in Range(workQueue') :
        p \in Range(workQueue) \/ (p.id = nextId /\ nextId' = nextId + 1)

C5_AtMostOnce == [](C5_HeldPayloadInNoQueue) /\ [][C5_NoPushBack]_vars

\* C5 witness: the worker crashed while it held a dequeued job, which is now
\* in neither queue.
C5_Witness ==
    /\ pc = "crashed"
    /\ job_data_str.kind = "job"
    /\ dequeues[job_data_str.id] = 1
    /\ job_data_str \notin Range(workQueue)
    /\ job_data_str \notin Range(failedQueue)

\* C6: when a call of the pipeline raises, process_session runs no further
\* stage, the session row has status failed and error_message equal to the
\* text of the error that was raised, and the worker receives a
\* ProcessingError built from that text.
C6_FailedWithTriggeringError ==
    pc = "except" =>
        /\ exc.wrapped
        /\ CurSid \in DbSessionIds =>
             /\ sessions[CurSid].status = "failed"
             /\ sessions[CurSid].error_message =
                  [len |-> exc.len - WrapPrefixLen, wrapped |-> FALSE]

C6_RaiseStep ==
    (pc \in RaisePoints /\ pc' = "except") =>
        /\ UNCHANGED << progressLog, speakerRows, storageObjects, segments, summary >>
        /\ sessions'[CurSid].progress = sessions[CurSid].progress
        /\ sessions'[CurSid].audio_url = sessions[CurSid].audio_url

C6_NothingAfterRaise ==
    (pc \in {"except", "sleeping"} /\ pc' # "crashed") =>
        /\ pc' \in {"except", "sleeping", "push_failed", "attempt"}
        /\ UNCHANGED << progressLog, speakerRows, storageObjects >>
        /\ \A s \in DbSessionIds : sessions'[s].progress = sessions[s].progress

StageIdx(name) == CHOOSE i \in 1..Len(StageOrder) : StageOrder[i] = name
IsStageEntry(e) == e.stage # "direct"
StageEntries(log) == SelectSeq(log, IsStageEntry)

\* The stage a position of process_session belongs to.
StageOfPc(p) ==
    CASE p = "concatenating" -> "concatenating"
      [] p = "diarizing" -> "diarizing"
      [] p \in {"transcribing", "tx_batch", "tx_aggregate", "tx_done"} -> "transcribing"
      [] p = "saving_results" -> "saving_results"
      [] p \in {"generating_samples", "uploading"} -> "generating_samples"

\* C7: within one run the stages are entered in the order concatenating,
\* diarizing, transcribing, saving_results, generating_samples; a stage is
\* announced only right after the previous stage reported its 100%, and no
\* stage is entered twice or out of order.
C7_StagesInOrder ==
    LET st == StageEntries(progressLog) IN
    /\ st # << >> => st[1] = StageWrite("concatenating", 0)
    /\ \A i \in 1..(Len(st) - 1) :
         \/ st[i + 1].stage = st[i].stage
         \/ /\ StageIdx(st[i + 1].stage) = StageIdx(st[i].stage) + 1
            /\ st[i].pct = 100
            /\ st[i + 1].pct = 0
    /\ pc \in RaisePoints =>
         /\ st # << >>
         /\ st[Len(st)].stage = StageOfPc(pc)
         /\ pc \in StageNames => st[Len(st)].pct = 0

\* C7 witness: a run went through all five stages.
C7_Witness ==
    /\ pc = "uploading"
    /\ progressLog[Len(progressLog)] = StageWrite("generating_samples", 100)
    /\ Len(StageEntries(progressLog)) >= 11

\* C8: the values a run writes to Session.progress never decrease, stay in
\* 0..100, and a value written while a stage is active (announced and not
\* yet at its 100%) does not exceed the upper bound of that stage.
StageUpper(stage) == PROGRESS_STAGES[stage][2]

ActiveStageBefore(log, i) ==
    LET js == { j \in 1..(i - 1) : IsStageEntry(log[j]) } IN
    IF js = {} THEN "none"
    ELSE LET last == log[CHOOSE j \in js : \A k \in js : k <= j] IN
         IF last.pct < 100 THEN last.stage ELSE "none"

C8_ProgressMonotoneBounded ==
    /\ \A i \in 1..Len(progressLog) :
         /\ progressLog[i].value \in 0..100
         /\ i > 1 => progressLog[i - 1].value <= progressLog[i].value
         /\ IsStageEntry(progressLog[i]) =>
              progressLog[i].value <= StageUpper(progressLog[i].stage)
         /\ (~IsStageEntry(progressLog[i]) /\ ActiveStageBefore(progressLog, i) # "none") =>
              progressLog[i].value <= StageUpper(ActiveStageBefore(progressLog, i))
    /\ (progressLog # << >> /\ pc \in RaisePoints \cup {"returned"}) =>
         sessions[CurSid].progress = LastValue(progressLog)

\* C8 witness: a run reported half of the transcribing stage (62) on its way
\* to the end of the last stage.
C8_Witness ==
    /\ pc = "uploading"
    /\ \E i \in 1..Len(progressLog) : progressLog[i] = StageWrite("transcribing", 50)
    /\ Row.progress = 100

\* C9: a run in which diarization returns no segment succeeds: no later
\* stage runs, the session is ready_for_claiming with progress 100, it has
\* no SessionSpeaker row, and the summary reports 0 speakers and 0 segments.
C9_ZeroSegmentsRun ==
    (pc = "returned" /\ segments = << >>) =>
        /\ Row.status = "ready_for_claiming"
        /\ Row.progress = 100
        /\ summary = [speakers |-> 0, segments |-> 0]
        /\ \A i \in 1..Len(progressLog) :
             progressLog[i].stage \in {"direct", "concatenating", "diarizing"}
        /\ TotalSpeakerRows(CurSid) = 0

\* C10 (as claimed): whenever a session is ready_for_claiming its full audio
\* is in storage and audio_url holds the URL.
C10_UploadedWheneverReady ==
    \A s \in DbSessionIds :
        sessions[s].status = "ready_for_claiming" =>
            /\ s \in storageObjects
            /\ sessions[s].audio_url = FullAudioUrl(s)

\* C10 (amended): whenever a run in which diarization returned at least one
\* segment ends successfully, the full audio is in storage and audio_url
\* holds its URL in the very commit that makes ready_for_claiming visible.
C10_ReadyStep ==
    \A s \in DbSessionIds :
        ( /\ sessions'[s].status = "ready_for_claiming"
          /\ sessions[s].status # "ready_for_claiming"
          /\ segments' # << >> ) =>
            /\ s \in storageObjects'
            /\ sessions'[s].audio_url = FullAudioUrl(s)

C10_ReturnedWithSegments ==
    (pc = "returned" /\ segments # << >>) =>
        /\ Row.status = "ready_for_claiming"
        /\ CurSid \in storageObjects
        /\ Row.audio_url = FullAudioUrl(CurSid)

C10_UploadedBeforeReady == [](C10_ReturnedWithSegments) /\ [][C10_ReadyStep]_vars

\* C10 witness: a run with segments ended ready_for_claiming with the URL set.
C10_Witness ==
    /\ pc = "returned"
    /\ segments # << >>
    /\ Row.status = "ready_for_claiming"
    /\ Row.audio_url = FullAudioUrl("s1")
    /\ "s1" \in storageObjects

\* The duration of the segment, the end of the chunk timeline, and the part
\* of the segment that lies inside the timeline (which starts at 0 and has no
\* gap).
segment_duration == segment.end_time - segment.start_time
TimelineEnd == IF chunks = << >> THEN 0 ELSE ChunkEnd(chunks, Len(chunks))
covered_duration == Max(0, Min(segment.end_time, TimelineEnd) - segment.start_time)
SomeOverlappingChunkHasText ==
    \E n \in DOMAIN cached :
        /\ n <= Len(chunks)
        /\ cached[n] # << >>
        /\ ChunkStart(chunks, n) < segment.end_time
        /\ segment.start_time < ChunkEnd(chunks, n)

C12_NoFailedRowIsHit ==
    cached_rows.queried =>
        \A n \in DOMAIN cached_rows.rows :
            /\ cached_rows.rows[n].transcribed_at
            /\ cached_rows.rows[n].error_message = NoMsg

\* C13 (as claimed): a call of transcribe_chunk_background made for a key
\* whose row has transcribed_at set makes no transcription call and writes
\* nothing, and no key ever has more than one row.
C13_Idempotent ==
    /\ \A t \in BgTasks :
         bg[t].cached_at_start =>
            /\ bg[t].calls = 0
            /\ bg[t].outcome \notin {"cached", "recorded"}
    /\ \A n \in ChunkNumbers : Len(chunk_transcriptions[n]) <= 1

\* C20 (as claimed): a call in which something raised returns normally and
\* has recorded the failure in the error_message of the row of its key.
C20_FailureRecorded ==
    \A t \in BgTasks :
        (bg[t].pc = "returned" /\ bg[t].outcome \notin {"skipped", "cached"}) =>
            bg[t].outcome = "recorded"

\* C20 (amended): a call in which something raised returns normally; its
\* except block either sets error_message (at most 500 characters) on the row
\* of the key, creating a row with only the key and the message when there
\* is none and leaving every other column and row as they were, or, when the
\* recording itself raises, changes nothing.
C20_ExceptStep ==
    \A t \in BgTasks :
        (bg[t].pc = "except" /\ bg'[t] # bg[t]) =>
            LET n == bg[t].chunk_number
                old == chunk_transcriptions
                new == chunk_transcriptions' IN
            /\ bg'[t].pc = "returned"
            /\ bg'[t].outcome \in {"recorded", "dropped"}
            /\ bg'[t].outcome = "dropped" => new = old
            /\ bg'[t].outcome = "recorded" =>
                 /\ Len(new[n]) = 1
                 /\ new[n][1].error_message.len \in 1..ErrorMessageLimit
                 /\ \A m \in ChunkNumbers \ {n} : new[m] = old[m]
                 /\ IF HasRow(old, n)
                    THEN new[n][1] = [old[n][1] EXCEPT !.error_message = new[n][1].error_message]
                    ELSE /\ ~new[n][1].transcribed_at
                         /\ new[n][1].corrected_text = << >>

C20_Returns ==
    \A t \in BgTasks :
        /\ bg[t].pc \in {"idle", "query", "transcribe", "commit", "except", "returned"}
        /\ bg[t].outcome \in {"recorded", "dropped"} => bg[t].pc = "returned"

C20_FailureAbsorbed == [](C20_Returns) /\ [][C20_ExceptStep]_vars

\* C20 witness: the transcription of a chunk without a row raised and the
\* call returned after creating the row that holds the message.
C20_Witness ==
    \E t \in BgTasks :
        /\ bg[t].pc = "returned"
        /\ bg[t].outcome = "recorded"
        /\ bg[t].calls = 1
        /\ HasRow(chunk_transcriptions, bg[t].chunk_number)
        /\ ~first(chunk_transcriptions, bg[t].chunk_number).transcribed_at
        /\ first(chunk_transcriptions, bg[t].chunk_number).error_message.len = ErrorMessageLimit

\* Transcription calls in flight and finished in the current batch.
RunningTasks == {i \in DOMAIN tasks : tasks[i] = "running"}
FinishedTasks == {i \in DOMAIN tasks : tasks[i] \in TaskResults}

C14_AtMostThree ==
    /\ Cardinality(RunningTasks) <= SemaphoreLimit
    /\ pc = "tx_batch" => semaphore = SemaphoreLimit - Cardinality(RunningTasks)

C14_StartStep ==
    \A i \in DOMAIN tasks :
        (tasks[i] = "pending" /\ i \in DOMAIN tasks' /\ tasks'[i] = "running")
            => /\ Cardinality(RunningTasks) < SemaphoreLimit
               /\ Cardinality(FinishedTasks) >= i - SemaphoreLimit

\* C14: while the uncached segments of a session are transcribed, at most
\* three transcription calls are in flight at any moment, and a call beyond
\* the third starts only once a running call has finished.
C14_BoundedConcurrency == [](C14_AtMostThree) /\ [][C14_StartStep]_vars

\* The fourth call is in flight together with two others, one having
\* finished before it.
C14_Witness ==
    /\ Len(tasks) >= 4
    /\ tasks[4] = "running"
    /\ Cardinality(RunningTasks) = SemaphoreLimit
    /\ Cardinality(FinishedTasks) = 1

\* Occurrences of the word counted for speaker k in this run: in the cached
\* segments, and in the results of the transcription calls.
CachedCount(k) ==
    Cardinality({i \in DOMAIN cached_segments :
                    cached_segments[i].speaker_id = k /\ cached_segments[i].count = 1})
TranscribedCount(k) ==
    Cardinality({i \in DOMAIN tasks : uncached_segments[i] = k /\ tasks[i] = "one_word"})

C15_Aggregated ==
    pc \in {"tx_done", "saving_results"}
        => \A k \in Speakers :
               speaker_word_counts[k] = CachedCount(k) + TranscribedCount(k)

C15_FailureStep ==
    \A i \in DOMAIN tasks :
        (tasks[i] = "running" /\ i \in DOMAIN tasks' /\ tasks'[i] = "failed")
            => /\ pc' = "tx_batch"
               /\ UNCHANGED << attempt, sleeps, workQueue, failedQueue, sessions, exc,
                               speaker_word_counts >>

\* C15: a failed transcription of one uncached segment adds nothing to any
\* word count while every other segment's result is aggregated;
\* transcribe_and_count returns and the pipeline reaches saving_results; the
\* failure starts no retry and no dead-lettering.
C15_PartialSuccess == [](C15_Aggregated) /\ [][C15_FailureStep]_vars

\* The first attempt is at saving_results after one call failed and another
\* one found the word.
C15_Witness ==
    /\ pc = "saving_results"
    /\ attempt = 1
    /\ sleeps = << >>
    /\ failedQueue = << >>
    /\ \E i, j \in DOMAIN tasks :
          /\ tasks[i] = "failed"
          /\ tasks[j] = "one_word"
          /\ speaker_word_counts[uncached_segments[j]] >= 1

\* C16: when a run has made the session ready_for_claiming, every speaker_id
\* of the diarization result has exactly one SessionSpeaker row of the
\* session, a speaker without counted word included, and only speakers with
\* a counted word have SpeakerWordCount rows.
C16_OneRowPerSpeaker ==
    (pc = "returned" /\ Row.status = "ready_for_claiming") =>
        \A k \in Speakers :
            /\ k \in SpeakerIdsOf(segments) => speakerRows[CurSid][k] = 1
            /\ word_count_rows[k] # << >> => speaker_word_counts[k] > 0

\* Sum of the count column of a speaker's SpeakerWordCount rows.
RECURSIVE SumCounts(_)
SumCounts(rows) == IF rows = << >> THEN 0 ELSE Head(rows) + SumCounts(Tail(rows))

\* C17: when a run has ended successfully, the persisted SpeakerWordCount
\* counts of the session, summed per speaker, equal the aggregation that
\* transcribe_and_count returned in that run.
C17_PersistedEqualsAggregated ==
    (pc = "returned" /\ Row.status = "ready_for_claiming") =>
        \A k \in Speakers : SumCounts(word_count_rows[k]) = speaker_word_counts[k]

C18_TerminalStep ==
    \A s \in DbSessionIds :
        ( /\ sessions[s].status \in {"failed", "completed"}
          /\ sessions'[s].status # sessions[s].status ) =>
            /\ pc = "attempt" /\ CurSid = s /\ attempt = 1
            /\ sessions'[s].status = "processing"
            /\ sessions'[s].progress = 0

\* C18: a session that is failed or completed keeps that status until
\* processing starts for a newly dequeued job for it, and that start sets
\* status processing and progress 0.
C18_Terminal == [][C18_TerminalStep]_vars

\* C19: a session whose error_message is set has status failed; a session
\* that is ready_for_claiming carries no error_message.
C19_ErrorOnlyWhenFailed ==
    \A s \in DbSessionIds :
        sessions[s].error_message # NoMsg => sessions[s].status = "failed"

\* The chunks that overlap the segment and have a cache entry, and their
\* corrected_text joined from the lowest chunk_number to the highest.
OverlappingCached ==
    {n \in DOMAIN cached :
        /\ n <= Len(chunks)
        /\ ChunkStart(chunks, n) < segment.end_time
        /\ segment.start_time < ChunkEnd(chunks, n)}

RECURSIVE JoinAscending(_)
JoinAscending(S) ==
    IF S = {} THEN << >>
    ELSE LET m == CHOOSE n \in S : \A o \in S : n <= o IN
         cached[m] \o JoinAscending(S \ {m})

\* Two chunks of 30 s with texts T1 and T2 and the segment [0, 58].
C21_Example ==
    get_text_for_time_range([n \in {1, 2} |-> << WordOf(n) >>], << 30, 30 >>, 0, 58)
        = Str(<< WordOf(1), WordOf(2) >>)

RECURSIVE OverlapSum(_)
OverlapSum(S) ==
    IF S = {} THEN 0
    ELSE LET m == CHOOSE n \in S : TRUE IN
         (Min(ChunkEnd(chunks, m), segment.end_time)
            - Max(ChunkStart(chunks, m), segment.start_time))
         + OverlapSum(S \ {m})
cached_covered_duration == OverlapSum(OverlappingCached)

\* C22: the ratio behind the cache decision counts only the overlap with
\* chunks that have a successful cached transcription: a segment is used
\* from the cache only if those chunks span at least 0.8 of its duration.
C22_OnlyCachedChunksCount ==
    (classified = "cached" /\ segment_duration > 0) =>
        cached_covered_duration * 100 >= MinCoveragePercent * segment_duration

\* Sum of the counts of speaker k over a list of (speaker_id, count) pairs.
RECURSIVE SpeakerSum(_, _)
SpeakerSum(k, pairs) ==
    IF pairs = << >> THEN 0
    ELSE (IF Head(pairs).speaker_id = k THEN Head(pairs).count ELSE 0)
         + SpeakerSum(k, Tail(pairs))

\* The pairs of the calls that returned a transcript, in segment order.
TranscribedPairs ==
    [i \in DOMAIN tasks |->
        [speaker_id |-> uncached_segments[i], count |-> CountOf(tasks[i])]]

\* C23: transcribe_and_count returns for each speaker the sum of the counts
\* of the speaker's cache-hit segments and of the speaker's successfully
\* transcribed segments; the value depends on the results of the calls only,
\* not on the order in which they returned.
C23_SumPerSpeaker ==
    pc = "tx_done" =>
        \A k \in Speakers :
            speaker_word_counts[k]
                = SpeakerSum(k, cached_segments) + SpeakerSum(k, TranscribedPairs)

\* The call for the second uncached segment returned before the call for the
\* first one, the two segments belong to different speakers, and only the
\* first one holds the word.
C23_Witness ==
    /\ pc = "tx_done"
    /\ completion_order = << 2, 1 >>
    /\ uncached_segments[1] # uncached_segments[2]
    /\ tasks = << "one_word", "no_word" >>
    /\ speaker_word_counts[uncached_segments[1]] = 1
    /\ speaker_word_counts[uncached_segments[2]] = 0

\* C24: during the batch Session.progress shows the share of the cached
\* segments plus that of the transcription calls that have returned, also
\* while other calls of the batch are still in flight.
C24_ProgressFollowsCompletions ==
    (pc = "tx_batch" /\ CurSid \in DbSessionIds) =>
        sessions[CurSid].progress =
            StageWrite("transcribing",
                       ((nCached + Cardinality(FinishedTasks)) * 100)
                           \div Len(segments)).value

\* C29: when process_session raises, the SessionSpeaker and SpeakerWordCount
\* rows of the session are those from before the run.  The first run of the
\* first job starts with no row, so it has none when its failure reaches
\* process_job.
C29_FailedRunLeavesRows ==
    (pc = "except" /\ attempt = 1 /\ CurSid \in DbSessionIds) =>
        /\ TotalSpeakerRows(CurSid) = 0
        /\ \A k \in Speakers : word_count_rows[k] = << >>

C25_NeverExits == pc # "exited"

C25_ReconnectStep ==
    (pc = "reconnect" /\ pc' # "reconnect") =>
        /\ pc' = "loop"
        /\ reconnect' = [handler |-> "RedisConnectionError", delay |-> ReconnectDelay,
                         connected |-> broker_up]
        /\ UNCHANGED << workQueue, failedQueue >>

\* C25: after a broker connection error the worker does not exit: it waits
\* the fixed delay, tries to build a new connection and returns to the top
\* of the loop; and when the broker stays reachable from some moment on,
\* every payload waiting in the work queue is dequeued.
C25_ReconnectsAndResumes ==
    /\ [](C25_NeverExits)
    /\ [][C25_ReconnectStep]_vars
    /\ (<>[](broker_up)) => <>(workQueue = << >>)

\* A payload has been dequeued after a reconnection that had failed at first.
C25_Witness ==
    /\ pc = "parse"
    /\ reconnect.handler = "RedisConnectionError"
    /\ dequeues[1] = 1
    /\ workQueue = << >>

C27_NoSidHeld ==
    job_data_str.kind = "nosid" =>
        /\ pc \in {"parse", "push_failed", "crashed"}
        /\ attempt = 0
        /\ invocations = 0
        /\ sleeps = << >>

C27_NoSidStep ==
    job_data_str.kind = "nosid" =>
        /\ UNCHANGED << sessions, speakerRows, storageObjects >>
        /\ (pc = "push_failed" /\ pc' \notin {"push_failed", "crashed"}) =>
              /\ pc' = "loop"
              /\ failedQueue' = << job_data_str >> \o failedQueue
              /\ lastOutcome' = [job |-> job_data_str, result |-> "rejected"]
        /\ pc # "push_failed" => failedQueue' = failedQueue

C27_NoSidAfter ==
    /\ lastOutcome.result = "rejected" =>
          /\ lastOutcome.job.kind = "nosid"
          /\ CountIn(failedQueue, lastOutcome.job) = 1
    /\ \A i \in 1..Len(failedQueue) :
          failedQueue[i].kind = "nosid" => CountIn(failedQueue, failedQueue[i]) = 1

C28_SucceededOrDeadLettered ==
    lastOutcome.result # "none" =>
        \/ /\ lastOutcome.result = "succeeded"
           /\ CountIn(failedQueue, lastOutcome.job) = 0
        \/ /\ lastOutcome.result # "succeeded"
           /\ CountIn(failedQueue, lastOutcome.job) = 1

\* C30: the chunk numbers of the AudioChunk rows of one session are pairwise
\* distinct and are exactly 1..n, n the number of rows, also when uploads of
\* the session are handled concurrently.
C30_DistinctWithoutGaps ==
    /\ \A i, j \in 1..Len(audio_chunks) :
          i # j => audio_chunks[i] # audio_chunks[j]
    /\ { audio_chunks[i] : i \in 1..Len(audio_chunks) } = 1..Len(audio_chunks)

\* The WordCount rows that one copy of the counts of every speaker claimed
\* with type self or user amounts to.
RowsOfClaimed(k) ==
    IF speaker_claims[k].claim_type \in {"self", "user"} THEN Len(word_count_rows[k]) ELSE 0

\* C26: a claim is terminal. The claim columns of a claimed SessionSpeaker
\* never change again; a request handled for a speaker that is already
\* claimed is answered 400 and changes neither the claim columns nor the
\* WordCount rows; and the counts of each speaker are in WordCount at most
\* once, also when the requests for one speaker are in flight together.
C26_RejectedStep ==
    \A r \in ClaimReqs :
        (/\ claim_reqs[r].pc = "arrived"
         /\ claim_reqs'[r].pc # "arrived"
         /\ speaker_claims[claim_reqs[r].speaker].claimed_by # "null")
        => /\ claim_reqs'[r].pc = "400"
           /\ UNCHANGED << speaker_claims, word_counts >>
C26_TerminalStep ==
    \A k \in Speakers :
        speaker_claims[k].claimed_by # "null" => speaker_claims'[k] = speaker_claims[k]
C26_CopiedOnce ==
    /\ Len(word_counts) = RowsOfClaimed("SPEAKER_00") + RowsOfClaimed("SPEAKER_01")
    /\ \A k \in Speakers :
          Cardinality({ r \in ClaimReqs :
                          claim_reqs[r].pc = "200" /\ claim_reqs[r].speaker = k }) <= 1
C26_ClaimTerminal ==
    /\ []C26_CopiedOnce
    /\ [][C26_RejectedStep /\ C26_TerminalStep]_vars

\* Two requests for the same speaker were in flight together, the later one
\* was handled first and copied the counts, the earlier one was rejected.
C26_Witness ==
    /\ claim_reqs[1].pc = "400"
    /\ claim_reqs[2].pc = "200"
    /\ claim_reqs[1].speaker = claim_reqs[2].speaker
    /\ word_counts # << >>

====
